---- MODULE Spec2Model ----
(***************************************************************************)
(* PixLab (bead / gem colour changer): the grid, its undo/redo history,    *)
(* the 10-slot palette and the colour utilities, modelled from the         *)
(* JavaScript sources.  Two builds share the palette code:                 *)
(*   build = "hex" : hexGrid.js + app.js    + ImageProcessor (hex variant) *)
(*   build = "gem" : gemGrid.js + appGem.js + ImageProcessor (gem variant) *)
(* The HexGrid class of unnamed/part_001 (beads with cut corners) is a     *)
(* third grid, build = "bead"; only its editing, undo/redo and loading are *)
(* modelled (SpecLoad).                                                    *)
(*                                                                         *)
(* JavaScript values are modelled as follows.                              *)
(*   - a string is the tuple of its characters, "#F00" is <<"#","F","0",   *)
(*     "0">>, so that normalizeHex/hexToRgb/rgbToHex work on characters;   *)
(*   - the value undefined is Undef, a JSON number is NumberValue;         *)
(*   - the object held in hexColors/gemColors is a record                  *)
(*       [cells |-> its coordinate properties [k, v] in insertion order,   *)
(*        wrap  |-> <<>> or <<o>>]                                         *)
(*     where wrap = <<o>> says the object also has the two properties      *)
(*     "hexColors" (the object o) and "timestamp" (a number): this is the  *)
(*     shape of a history entry, which HexGrid.undo/redo install as the    *)
(*     live colour map;                                                    *)
(*   - the key `${col},${row}` is the pair <<col, row>>.                   *)
(***************************************************************************)
EXTENDS Integers, Sequences, FiniteSets, TLC

\* ------------------------------------------------------------------ bounds
\* Grid extent.  The sources fix 64 x 40 (targetCols, targetRows); the model
\* keeps the same code with a small extent.
GridCols == 2
GridRows == 1
\* History capacity.  The sources evict above 50 entries; the model evicts
\* above HistoryLimit, so that truncation and eviction are both reached.
HistoryLimit == 2
\* Nesting depth of the colour map that HexGrid.undo/redo may build.
MaxNesting == 1
\* Deferred saveState timers that may be pending at once (gem image load).
MaxPending == 1
\* Colour reductions applied in one run (k-means makes new colours each time).
MaxReductions == 1

\* ------------------------------------------------------- program constants
PaletteSize == 10

\* --------------------------------------------------------------- JS values
\* undefined, a number, an object (a string is the tuple of its characters)
Undef == <<"undefined">>
NumberValue == <<"number">>
ObjectValue == <<"object">>

IsString(v) == v \notin {Undef, NumberValue, ObjectValue}

UpperDigits == <<"0","1","2","3","4","5","6","7","8","9","A","B","C","D","E","F">>
LowerDigits == <<"0","1","2","3","4","5","6","7","8","9","a","b","c","d","e","f">>

Range(s) == {s[i] : i \in 1..Len(s)}

\* value of a hexadecimal digit character, -1 for any other character
HexDigits == Range(UpperDigits) \cup Range(LowerDigits)

DigitTable ==
    [ch \in HexDigits |->
        IF \E i \in 1..16 : UpperDigits[i] = ch
        THEN (CHOOSE i \in 1..16 : UpperDigits[i] = ch) - 1
        ELSE (CHOOSE i \in 1..16 : LowerDigits[i] = ch) - 1]

DigitVal(ch) == IF ch \in HexDigits THEN DigitTable[ch] ELSE -1

IsHexDigit(ch) == DigitVal(ch) >= 0

\* String.prototype.toUpperCase on one character of the model's alphabet
UpperChar(ch) ==
    IF \E i \in 11..16 : LowerDigits[i] = ch
    THEN UpperDigits[CHOOSE i \in 11..16 : LowerDigits[i] = ch]
    ELSE IF ch = "g" THEN "G" ELSE ch

toUpperCase(s) == [i \in 1..Len(s) |-> UpperChar(s[i])]

\* Number.prototype.toString(16): the hexadecimal digits of n >= 0, lower case
RECURSIVE toString16(_)
toString16(n) ==
    IF n < 16 THEN <<LowerDigits[n + 1]>>
    ELSE Append(toString16(n \div 16), LowerDigits[(n % 16) + 1])

\* parseInt(s, 16) on a string without sign, blanks or 0x prefix: the value
\* of the longest prefix of hexadecimal digits; NaN (no digit) is -1
RECURSIVE ParsePrefix(_, _, _)
ParsePrefix(s, i, acc) ==
    IF i > Len(s) \/ ~IsHexDigit(s[i]) THEN acc
    ELSE ParsePrefix(s, i + 1, acc * 16 + DigitVal(s[i]))

parseInt16(s) ==
    IF Len(s) = 0 \/ ~IsHexDigit(s[1]) THEN -1 ELSE ParsePrefix(s, 1, 0)

\* ------------------------------------------------------------- ColorUtils
rgbToHex(r, g, b) ==
    <<"#">> \o toUpperCase(Tail(toString16(16777216 + r * 65536 + g * 256 + b)))

\* (x >> 16) & 255 and friends; NaN converts to 0.  The texts of the model
\* have at most 7 hexadecimal digits, so the 32-bit conversion changes nothing
Channels(n) ==
    [r |-> (n \div 65536) % 256, g |-> (n \div 256) % 256, b |-> n % 256]

NaNToZero(p) == IF p < 0 THEN 0 ELSE p

hexToRgb(hex) ==
    Channels(NaNToZero(parseInt16(
        IF Len(hex) > 0 /\ hex[1] = "#" THEN Tail(hex) ELSE hex)))

\* Math.sqrt is strictly increasing on the integers 0..3*255^2, so the
\* comparisons of distances are those of the squared distances
colorDistance(c1, c2) ==
      (c1.r - c2.r) * (c1.r - c2.r)
    + (c1.g - c2.g) * (c1.g - c2.g)
    + (c1.b - c2.b) * (c1.b - c2.b)

\* /^#?([0-9A-F]{3}|[0-9A-F]{6})$/i.test(hex); a number is converted to its
\* decimal text first (NumberValue stands for 123, which passes)
isValidHex(hex) ==
    IF hex = NumberValue THEN TRUE
    ELSE IF hex = Undef THEN FALSE
    ELSE LET body == IF Len(hex) > 0 /\ hex[1] = "#" THEN Tail(hex) ELSE hex
         IN  /\ Len(body) \in {3, 6}
             /\ \A i \in 1..Len(body) : IsHexDigit(body[i])

\* hex.startsWith is not a function when hex is not a string
normalizeHexThrows(hex) == ~IsString(hex)

normalizeHex(hex) ==
    LET h1 == IF Len(hex) > 0 /\ hex[1] = "#" THEN hex ELSE <<"#">> \o hex
        h2 == IF Len(h1) = 4
              THEN <<"#", h1[2], h1[2], h1[3], h1[3], h1[4], h1[4]>>
              ELSE h1
    IN toUpperCase(h2)

\* the index of the first minimum of a non-empty list of distances (the
\* loop of findClosestColor replaces its candidate only on a strictly
\* smaller distance)
\* fault variant: <= in place of <, the last minimum wins
LastMinimum(dist) ==
    CHOOSE i \in 1..Len(dist) :
        /\ \A j \in 1..Len(dist) : dist[i] <= dist[j]
        /\ \A j \in (i + 1)..Len(dist) : dist[j] > dist[i]

FirstMinimum(dist) ==
    CHOOSE i \in 1..Len(dist) :
        /\ \A j \in 1..Len(dist) : dist[i] <= dist[j]
        /\ \A j \in 1..(i - 1) : dist[j] > dist[i]

Distances(targetRgb, palette) ==
    [i \in 1..Len(palette) |-> colorDistance(targetRgb, hexToRgb(palette[i]))]

\* findClosestColor on a palette of strings: palette[0] when the palette is
\* empty (undefined), else the first entry at minimal distance
findClosestColor(targetHex, palette) ==
    IF Len(palette) = 0 THEN Undef
    ELSE palette[FirstMinimum(Distances(hexToRgb(targetHex), palette))]


\* ------------------------------------------------------- colours and keys
White == <<"#","F","F","F","F","F","F">>
Red   == <<"#","F","F","0","0","0","0">>
Black == <<"#","0","0","0","0","0","0">>

\* targetCols / targetRows of calculateDimensions
targetCols == GridCols
targetRows == GridRows

\* the keys initializeGrid writes, in the order it writes them (row by row)
RECURSIVE RowKeys(_, _, _)
RowKeys(row, col, ncols) ==
    IF col >= ncols THEN <<>>
    ELSE <<(<<col, row>>)>> \o RowKeys(row, col + 1, ncols)

RECURSIVE GridKeys(_, _, _)
GridKeys(row, ncols, nrows) ==
    IF row >= nrows THEN <<>>
    ELSE RowKeys(row, 0, ncols) \o GridKeys(row + 1, ncols, nrows)

isValidCell(col, row, ncols, nrows) ==
    col >= 0 /\ col < ncols /\ row >= 0 /\ row < nrows

\* ------------------------------------------------- the colour map object
\* cells is the sequence of own coordinate properties in insertion order
EmptyObj == [cells |-> <<>>, wrap |-> <<>>]

HasKey(o, key) == \E i \in 1..Len(o.cells) : o.cells[i].k = key

\* o[key]
Get(o, key) ==
    IF HasKey(o, key)
    THEN o.cells[CHOOSE i \in 1..Len(o.cells) : o.cells[i].k = key].v
    ELSE Undef

\* o[key] = value: in place when the property exists, else appended
Put(o, key, value) ==
    IF HasKey(o, key)
    THEN [o EXCEPT !.cells =
            [i \in 1..Len(o.cells) |->
                IF o.cells[i].k = key THEN [k |-> key, v |-> value]
                ELSE o.cells[i]]]
    ELSE [o EXCEPT !.cells = Append(o.cells, [k |-> key, v |-> value])]

RECURSIVE PutAll(_, _, _)
PutAll(o, keys, value) ==
    IF Len(keys) = 0 THEN o
    ELSE PutAll(Put(o, Head(keys), value), Tail(keys), value)

Nesting(o) == IF Len(o.wrap) = 0 THEN 0 ELSE 1 + Len(o.wrap[1].wrap)

\* JSON.parse(JSON.stringify(o)): a property whose value is undefined is
\* left out, everything else is copied in order
DropUndefined(cells) == SelectSeq(cells, LAMBDA e : e.v # Undef)

RECURSIVE JsonClone(_)
JsonClone(o) ==
    [cells |-> DropUndefined(o.cells),
     wrap  |-> IF Len(o.wrap) = 0 THEN <<>> ELSE <<JsonClone(o.wrap[1])>>]

\* Fault variant of initializeGrid: the last column is left out
initializeGridShort(o, ncols, nrows) ==
    PutAll(o, GridKeys(0, ncols - 1, nrows), White)

\* initializeGrid: every in-range key set to the default colour
initializeGrid(o, ncols, nrows) == PutAll(o, GridKeys(0, ncols, nrows), White)

\* Object.values(o): the nested object and the timestamp come first when
\* present; ObjectValue and NumberValue stand for them
Values(o) ==
    (IF Len(o.wrap) = 0 THEN <<>> ELSE <<ObjectValue, NumberValue>>)
    \o [i \in 1..Len(o.cells) |-> o.cells[i].v]

\* Array.from(new Set(xs)): first occurrences, in order
RECURSIVE Distinct(_)
Distinct(xs) ==
    IF Len(xs) = 0 THEN <<>>
    ELSE LET front == Distinct(SubSeq(xs, 1, Len(xs) - 1))
             x     == xs[Len(xs)]
         IN IF x \in Range(front) THEN front ELSE Append(front, x)

getAllColors(o) == Distinct(Values(o))

\* getColorCounts: the property name is the value converted to a string, so
\* undefined counts under "undefined"; kept as ordered [color, count] pairs
CountOf(xs, x) == Cardinality({i \in 1..Len(xs) : xs[i] = x})

getColorCounts(o) ==
    LET vs == Values(o)
        ds == Distinct(vs)
    IN [i \in 1..Len(ds) |-> [color |-> ds[i], count |-> CountOf(vs, ds[i])]]


\* ------------------------------------------------------------ the history
Last(s) == s[Len(s)]
Front(s) == SubSeq(s, 1, Len(s) - 1)

\* Fault variant of saveState: the oldest entry is evicted but the cursor is
\* not moved back with it
saveStateKeepsCursor(h, i, o) ==
    IF Len(Append(IF i < Len(h) - 1 THEN SubSeq(h, 1, i + 1) ELSE h, JsonClone(o)))
           > HistoryLimit
    THEN [history |-> Tail(Append(IF i < Len(h) - 1 THEN SubSeq(h, 1, i + 1) ELSE h,
                                  JsonClone(o))),
          historyIndex |-> Len(IF i < Len(h) - 1 THEN SubSeq(h, 1, i + 1) ELSE h)]
    ELSE [history |-> Append(IF i < Len(h) - 1 THEN SubSeq(h, 1, i + 1) ELSE h,
                             JsonClone(o)),
          historyIndex |-> Len(IF i < Len(h) - 1 THEN SubSeq(h, 1, i + 1) ELSE h)]

\* Fault variant of saveState: the snapshots after the cursor are kept
saveStateKeepsFuture(h, i, o) ==
    IF Len(Append(h, JsonClone(o))) > HistoryLimit
    THEN [history |-> Tail(Append(h, JsonClone(o))), historyIndex |-> Len(h) - 1]
    ELSE [history |-> Append(h, JsonClone(o)), historyIndex |-> Len(h)]

\* Fault variant of saveState: a full history drops the newest of the old
\* snapshots instead of the oldest
saveStateEvictsNewest(h, i, o) ==
    IF Len(Append(IF i < Len(h) - 1 THEN SubSeq(h, 1, i + 1) ELSE h, JsonClone(o)))
           > HistoryLimit
    THEN [history |-> Append(Front(IF i < Len(h) - 1 THEN SubSeq(h, 1, i + 1) ELSE h),
                             JsonClone(o)),
          historyIndex |-> Len(IF i < Len(h) - 1 THEN SubSeq(h, 1, i + 1) ELSE h) - 1]
    ELSE [history |-> Append(IF i < Len(h) - 1 THEN SubSeq(h, 1, i + 1) ELSE h,
                             JsonClone(o)),
          historyIndex |-> Len(IF i < Len(h) - 1 THEN SubSeq(h, 1, i + 1) ELSE h)]

\* saveState: h is the list of snapshots (the colour map stored under the
\* grid's own field name), i the JavaScript index into it
saveState(h, i, o) ==
    LET h1 == IF i < Len(h) - 1 THEN SubSeq(h, 1, i + 1) ELSE h
        h2 == Append(h1, JsonClone(o))
    IN IF Len(h2) > HistoryLimit
       THEN [history |-> Tail(h2), historyIndex |-> Len(h2) - 2]
       ELSE [history |-> h2, historyIndex |-> Len(h2) - 1]

\* the field of a history entry that holds the colour map
SnapshotField(b) == IF b = "gem" THEN "gemColors" ELSE "hexColors"

\* HexGrid.undo/redo: JSON.parse(JSON.stringify(this.history[i])), the whole
\* entry {hexColors, timestamp} becomes the colour map
RestoreEntry(snapshot) == [cells |-> <<>>, wrap |-> <<JsonClone(snapshot)>>]

\* GemGrid.undo/redo and the app.js buttons: the entry's colour map
RestoreColors(snapshot) == JsonClone(snapshot)

MethodRestore(b, snapshot) ==
    IF b = "hex" THEN RestoreEntry(snapshot) ELSE RestoreColors(snapshot)

\* the nesting bound of the model: HexGrid.undo/redo may not nest deeper
CanRestore(b, snapshot) == b = "hex" => Nesting(snapshot) < MaxNesting

\* ------------------------------------------------------------ the palette
\* Fault variant of createPaletteUI: padded but never cut
createPaletteUINoCut(cs) ==
    IF Len(cs) < PaletteSize
    THEN cs \o [i \in 1..(PaletteSize - Len(cs)) |-> White]
    ELSE cs

\* createPaletteUI: pad with white, cut to 10
RECURSIVE PadWhite(_)
PadWhite(cs) == IF Len(cs) < PaletteSize THEN PadWhite(Append(cs, White)) ELSE cs

createPaletteUI(cs) ==
    LET padded == PadWhite(cs)
    IN IF Len(padded) > PaletteSize THEN SubSeq(padded, 1, PaletteSize) ELSE padded

Intensity(color) == LET rgb == hexToRgb(color) IN rgb.r + rgb.g + rgb.b

\* the two comparators of extractTopColors, as "a goes before b"
ByCount(a, b) == a.count > b.count

\* Fault variant of the second comparator: ties in count are left alone
ByCountIgnoringIntensity(a, b) == a.count > b.count

ByCountThenIntensity(a, b) ==
    IF b.count # a.count THEN a.count > b.count
    ELSE Intensity(a.color) > Intensity(b.color)

\* the comparator of the reduceColors of colorUtils2.js: lower r+g+b first
ByValue(a, b) == Intensity(a.color) < Intensity(b.color)

Before(cmp, a, b) ==
    IF cmp = "count" THEN ByCount(a, b)
    ELSE IF cmp = "value" THEN ByValue(a, b)
    ELSE ByCountThenIntensity(a, b)

\* Array.prototype.sort: stable, an element moves in front of those it
\* goes before (insertion sort)
RECURSIVE InsertSorted(_, _, _)
InsertSorted(sorted, x, cmp) ==
    IF Len(sorted) = 0 THEN <<x>>
    ELSE IF Before(cmp, x, sorted[Len(sorted)])
         THEN Append(InsertSorted(SubSeq(sorted, 1, Len(sorted) - 1), x, cmp),
                     sorted[Len(sorted)])
         ELSE Append(sorted, x)

RECURSIVE StableSort(_, _)
StableSort(xs, cmp) ==
    IF Len(xs) = 0 THEN <<>>
    ELSE InsertSorted(StableSort(SubSeq(xs, 1, Len(xs) - 1), cmp),
                      xs[Len(xs)], cmp)

\* extractTopColors: colorCounts is the list of [color, count] entries of
\* the histogram object in insertion order
extractTopColors(colorCounts) ==
    LET colorPairs == StableSort(colorCounts, "count")
        colorIntensities == StableSort(colorPairs, "intensity")
        n == IF Len(colorIntensities) < 10 THEN Len(colorIntensities) ELSE 10
        topColors == [i \in 1..n |-> colorIntensities[i].color]
    IN createPaletteUI(SubSeq(PadWhite(topColors), 1, 10))


\* ------------------------------------------------------------------ inputs
\* what a mouse event hits: a cell, or nothing (pixelToHex returns null)
Outside == <<-1, -1>>
MouseTargets == Range(GridKeys(0, targetCols, targetRows)) \cup {Outside}

\* the palette slots whose Apply button, hex input and colour ball are used
Slots == {1, PaletteSize}

\* texts typed into a hex input
Blue == <<"#","0","0","0","0","F","F">>
TypedTexts == {<<"f","0","0">>, <<"#","g","g","g">>}

\* the fixed fallback of loadFullColorPalette
DefaultFullPalette ==
    << Red,
       <<"#","0","0","F","F","0","0">>, Blue,
       <<"#","F","F","F","F","0","0">>, <<"#","F","F","0","0","F","F">>,
       <<"#","0","0","F","F","F","F">>, White, Black,
       <<"#","8","8","8","8","8","8">>, <<"#","F","F","8","8","0","0">>,
       <<"#","0","0","F","F","A","A">>, <<"#","A","A","0","0","F","F">> >>

\* what full_color_palette.json may hold in its colors property
PaletteFileColors == { <<(<<"#","f","0","0">>), (<<"0","0","0","0","0","0">>)>>,
                       <<>>,
                       <<NumberValue>> }

\* the pixels of a decoded image, one [r, g, b] per canvas position
PixelValues == { [r |-> 250, g |-> 5, b |-> 5], [r |-> 10, g |-> 10, b |-> 10] }
Images == [Range(GridKeys(0, targetCols, targetRows)) -> PixelValues]


\* the numbers typed into targetColorCount
TargetCounts == {0, 1, 2}

\* a saved grid file as reader.onload sees it.  parses: JSON.parse returns;
\* field: the property that holds the cell map;
\* dims: cols and rows are present; palette: <<>> when absent, else <<list>>
FullCells(c0, c1) ==
    << [k |-> <<0, 0>>, v |-> c0], [k |-> <<1, 0>>, v |-> c1] >>

GridFileShapes ==
    { [parses |-> TRUE, cells |-> FullCells(Red, White), dims |-> TRUE,
       palette |-> << <<(<<"f","0","0">>)>> >>],
      [parses |-> TRUE, cells |-> << [k |-> <<0, 0>>, v |-> Black],
                                      [k |-> <<targetCols, 0>>, v |-> Black] >>,
       dims |-> FALSE, palette |-> <<>>],
      [parses |-> TRUE, cells |-> FullCells(Black, Red), dims |-> TRUE,
       palette |-> << <<Red, NumberValue>> >>],
      [parses |-> TRUE, cells |-> FullCells(White, White), dims |-> TRUE,
       palette |-> << [i \in 1..(PaletteSize + 1) |-> Black] >>],
      [parses |-> FALSE, cells |-> <<>>, dims |-> FALSE, palette |-> <<>>] }

GridFiles ==
    { [parses |-> f.parses, field |-> fld, cells |-> f.cells, dims |-> f.dims,
       palette |-> f.palette] :
        f \in GridFileShapes, fld \in {"hexColors", "gemColors"} }

\* a palette file: parses, and the value of its colors property
PaletteFiles ==
    { [parses |-> TRUE,  colors |-> <<(<<"0","0","0">>), (<<"#","g","g","g">>)>>],
      [parses |-> TRUE,  colors |-> [i \in 1..(PaletteSize + 1) |-> Red]],
      [parses |-> TRUE,  colors |-> <<(<<"#","g","g","g">>)>>],
      [parses |-> TRUE,  colors |-> <<NumberValue>>],
      [parses |-> TRUE,  colors |-> <<>>],
      [parses |-> FALSE, colors |-> <<>>] }

\* the texts the files and the hex inputs hold, with normalizeHex and
\* isValidHex tabulated on them
KnownTexts ==
    { t \in TypedTexts \cup UNION { Range(p) : p \in PaletteFileColors }
                       \cup UNION { Range(f.colors) : f \in PaletteFiles }
                       \cup UNION { Range(f.palette[1]) :
                                       f \in { g \in GridFileShapes :
                                                   Len(g.palette) = 1 } } :
        IsString(t) }

NormalizedTexts == [t \in KnownTexts |-> normalizeHex(t)]
ValidTexts == { t \in KnownTexts : isValidHex(t) }

Normalized(t) ==
    IF IsString(t) /\ t \in KnownTexts THEN NormalizedTexts[t] ELSE normalizeHex(t)

IsValid(t) ==
    IF IsString(t) /\ t \in KnownTexts THEN t \in ValidTexts ELSE isValidHex(t)

MapNormalize(cs) == [i \in 1..Len(cs) |-> Normalized(cs[i])]
AnyThrows(cs) == \E i \in 1..Len(cs) : normalizeHexThrows(cs[i])

\* loadFullColorPalette: what the then-handler, or the catch that also takes
\* an exception of the then-handler, leaves in fullPalette
\* fault variant: the then-handler takes the colours of the file as they
\* are, empty or not
SettledPaletteKeepsEmpty(ok, fileColors) ==
    IF ok /\ ~AnyThrows(fileColors)
    THEN MapNormalize(fileColors)
    ELSE DefaultFullPalette

SettledPalette(ok, fileColors) ==
    IF ok /\ Len(fileColors) > 0 /\ ~AnyThrows(fileColors)
    THEN MapNormalize(fileColors)
    ELSE DefaultFullPalette

\* --------------------------------------------------------------- the state
VARIABLES
    build,                 \* "hex" or "gem" ("bead" in SpecLoad)
    cols, rows,            \* this.cols, this.rows
    gridColors,            \* this.hexColors / this.gemColors
    selectedCells,         \* the Set, as the list of its keys in insertion order
    isSelecting,
    history, historyIndex,
    colors,                \* colorPalette.colors
    selectedColorIndex,    \* colorPalette.selectedColorIndex (0-based)
    pickerOpen,            \* the colour picker modal is shown
    pickerColor,           \* ColorPickerWheel.selectedColor
    fullPalette,           \* colorPalette.fullPalette
    fetchPending,          \* the fetch of full_color_palette.json has not settled
    pendingSaves,          \* setTimeout(saveState) callbacks not yet run
    originalImageColors,   \* colorPalette.originalImageColors, [color, count] list
    winOriginalImageColors,\* window.originalImageColors (<<>>: not set)
    firstImagePalette,     \* window.firstImagePalette (<<>>: not set)
    firstImagePaletteCounts,\* window.firstImagePaletteCounts (<<>>: not set)
    last,                  \* the handler that ran last, and whether it threw
    beforeEdit,            \* the colour map just before the edit that ran last
    undoRun,               \* the current run of undo() then redo() calls
    reductions,            \* how many colour reductions have been applied
    observing              \* whether last, beforeEdit and undoRun are recorded

gridVars == <<gridColors, history, historyIndex>>
selVars  == <<selectedCells, isSelecting>>
palVars  == <<colors, selectedColorIndex, pickerOpen, pickerColor>>
imgVars  == <<originalImageColors, winOriginalImageColors, firstImagePalette,
              firstImagePaletteCounts>>
envVars  == <<build, cols, rows, fullPalette, fetchPending, reductions, observing>>
vars == <<build, cols, rows, gridColors, selectedCells, isSelecting, history,
          historyIndex, colors, selectedColorIndex, pickerOpen, pickerColor,
          fullPalette, fetchPending, pendingSaves, originalImageColors,
          winOriginalImageColors, firstImagePalette, firstImagePaletteCounts,
          last, beforeEdit, undoRun, reductions, observing>>

NoRun == [base |-> EmptyObj, depth |-> 0, phase |-> "none"]

\* last, beforeEdit and undoRun observe the run and change nothing of it;
\* they are recorded when observing is set and keep their idle value (off)
\* otherwise
Seen(value, off) == IF observing THEN value ELSE off

\* last: op names the handler, threw says it ended by an exception, noop
\* that it took its early return, arg is the colour or count it was given
Unobserved == [op |-> "none", threw |-> FALSE, noop |-> FALSE, arg |-> <<>>]

Ran(op, threw, noop, arg) ==
    Seen([op |-> op, threw |-> threw, noop |-> noop, arg |-> arg], Unobserved)

Did(op) == Ran(op, FALSE, FALSE, <<>>)

\* the constructors: HexGrid/GemGrid, then ColorPalette (which starts the
\* fetch of the full palette), then ColorPickerWheel.init
ConstructedAs(builds, ncols, nrows) ==
    /\ build \in builds
    /\ cols = ncols
    /\ rows = nrows
    /\ gridColors = initializeGrid(EmptyObj, ncols, nrows)
    /\ selectedCells = <<>>
    /\ isSelecting = FALSE
    /\ history = <<>>
    /\ historyIndex = -1
    /\ colors = createPaletteUI([i \in 1..10 |-> White])
    /\ selectedColorIndex = 0
    /\ pickerOpen = FALSE
    /\ pickerColor = Red
    /\ pendingSaves = 0
    /\ originalImageColors = <<>>
    /\ winOriginalImageColors = <<>>
    /\ firstImagePalette = <<>>
    /\ firstImagePaletteCounts = <<>>
    /\ last = Unobserved
    /\ beforeEdit = EmptyObj
    /\ undoRun = NoRun
    /\ reductions = 0

ConstructedAt(ncols, nrows) == ConstructedAs({"hex", "gem"}, ncols, nrows)

Constructed == ConstructedAt(targetCols, targetRows)

\* the page once the constructors have run: the fetch of the full palette
\* is under way
Init ==
    /\ Constructed
    /\ fullPalette = <<>>
    /\ fetchPending = TRUE
    /\ observing \in BOOLEAN

\* the page once that fetch has failed and the catch handler has installed
\* the default palette (what FetchSettles(FALSE, <<>>) leaves)
InitReady ==
    /\ Constructed
    /\ fullPalette = SettledPalette(FALSE, <<>>)
    /\ fetchPending = FALSE
    /\ observing \in BOOLEAN


\* ---------------------------------------------------------------- selection
InGrid(t) == t # Outside /\ isValidCell(t[1], t[2], cols, rows)

AddKey(sel, key) == IF key \in Range(sel) THEN sel ELSE Append(sel, key)

HandleMouseDown(t) ==
    /\ isSelecting' = TRUE
    /\ selectedCells' = IF InGrid(t) THEN <<t>> ELSE <<>>
    /\ last' = Did("mouseDown")
    /\ beforeEdit' = EmptyObj
    /\ undoRun' = NoRun
    /\ UNCHANGED <<gridVars, palVars, imgVars, envVars, pendingSaves>>

HandleMouseMove(t) ==
    /\ isSelecting
    /\ selectedCells' = IF InGrid(t) THEN AddKey(selectedCells, t) ELSE selectedCells
    /\ last' = Did("mouseMove")
    /\ beforeEdit' = EmptyObj
    /\ undoRun' = NoRun
    /\ UNCHANGED <<isSelecting, gridVars, palVars, imgVars, envVars, pendingSaves>>

HandleMouseUp ==
    /\ isSelecting' = FALSE
    /\ last' = Did("mouseUp")
    /\ beforeEdit' = EmptyObj
    /\ undoRun' = NoRun
    /\ UNCHANGED <<selectedCells, gridVars, palVars, imgVars, envVars, pendingSaves>>

\* the keys of the own properties whose value is strictly equal to color
KeysWithColor(o, color) ==
    LET hits == SelectSeq(o.cells, LAMBDA e : e.v = color)
    IN [i \in 1..Len(hits) |-> hits[i].k]

\* handleDoubleClick: returns at once outside the grid; else selects the
\* properties that hold the colour of the cell and notifies the listeners
\* with that colour (last.arg)
HandleDoubleClick(t) ==
    /\ selectedCells' = IF InGrid(t)
                        THEN KeysWithColor(gridColors, Get(gridColors, t))
                        ELSE selectedCells
    /\ last' = Ran("doubleClick", FALSE, ~InGrid(t),
                   IF InGrid(t) THEN Get(gridColors, t) ELSE <<>>)
    /\ beforeEdit' = EmptyObj
    /\ undoRun' = NoRun
    /\ UNCHANGED <<isSelecting, gridVars, palVars, imgVars, envVars, pendingSaves>>

\* the Clear Selection button and the Escape key
ClearSelection ==
    /\ selectedCells' = <<>>
    /\ last' = Did("clearSelection")
    /\ beforeEdit' = EmptyObj
    /\ undoRun' = NoRun
    /\ UNCHANGED <<isSelecting, gridVars, palVars, imgVars, envVars, pendingSaves>>

\* -------------------------------------------------------------------- edits
\* Fault variant of applyColorToSelection: the snapshot is taken after the
\* cells have been painted
applyColorThenSave(o, h, i, sel, color) ==
    IF Len(sel) = 0
    THEN [gridColors |-> o, history |-> h, historyIndex |-> i]
    ELSE [gridColors |-> PutAll(o, sel, color),
          history |-> saveState(h, i, PutAll(o, sel, color)).history,
          historyIndex |-> saveState(h, i, PutAll(o, sel, color)).historyIndex]

\* applyColorToSelection
applyColorToSelection(o, h, i, sel, color) ==
    IF Len(sel) = 0
    THEN [gridColors |-> o, history |-> h, historyIndex |-> i]
    ELSE LET saved == saveState(h, i, o)
         IN [gridColors |-> PutAll(o, sel, color),
             history |-> saved.history, historyIndex |-> saved.historyIndex]

\* the Apply button of a palette slot: applySelectedColor(index)
ApplySelectedColor(slot) ==
    LET r == applyColorToSelection(gridColors, history, historyIndex,
                                   selectedCells, colors[slot])
    IN /\ gridColors' = r.gridColors
       /\ history' = r.history
       /\ historyIndex' = r.historyIndex
       /\ last' = Ran("applyColor", FALSE, Len(selectedCells) = 0, colors[slot])
       /\ beforeEdit' = IF Len(selectedCells) = 0 THEN EmptyObj
                        ELSE Seen(gridColors, EmptyObj)
       /\ undoRun' = NoRun
       /\ UNCHANGED <<selVars, palVars, imgVars, envVars, pendingSaves>>

\* clearGrid (the Clear Grid button, once confirmed)
clearGrid(o, h, i, ncols, nrows) ==
    LET saved == saveState(h, i, o)
    IN [gridColors |-> initializeGrid(o, ncols, nrows),
        history |-> saved.history, historyIndex |-> saved.historyIndex]

ClearGrid ==
    LET r == clearGrid(gridColors, history, historyIndex, cols, rows)
    IN /\ gridColors' = r.gridColors
       /\ history' = r.history
       /\ historyIndex' = r.historyIndex
       /\ selectedCells' = <<>>
       /\ last' = Ran("clearGrid", FALSE, FALSE,
                     [cursor |-> historyIndex, length |-> Len(history)])
       /\ beforeEdit' = Seen(gridColors, EmptyObj)
       /\ undoRun' = NoRun
       /\ UNCHANGED <<isSelecting, palVars, imgVars, envVars, pendingSaves>>

\* ---------------------------------------------------------------- undo, redo
\* Fault variant of undo: the guard lets index 0 through and the entry under
\* the cursor is restored
undoAtZero(b, o, h, i) ==
    IF i >= 0
    THEN [gridColors |-> MethodRestore(b, h[i + 1]),
          historyIndex |-> IF i > 0 THEN i - 1 ELSE 0]
    ELSE [gridColors |-> o, historyIndex |-> i]

\* undo() / redo() of the grid, bound to Ctrl+Z / Ctrl+Y
undo(b, o, h, i) ==
    IF i > 0
    THEN [gridColors |-> MethodRestore(b, h[i]), historyIndex |-> i - 1]
    ELSE [gridColors |-> o, historyIndex |-> i]

redo(b, o, h, i) ==
    IF i < Len(h) - 1
    THEN [gridColors |-> MethodRestore(b, h[i + 2]), historyIndex |-> i + 1]
    ELSE [gridColors |-> o, historyIndex |-> i]

UndoKey ==
    LET r == undo(build, gridColors, history, historyIndex)
    IN /\ historyIndex > 0 => CanRestore(build, history[historyIndex])
       /\ gridColors' = r.gridColors
       /\ historyIndex' = r.historyIndex
       /\ last' = Ran("undo", FALSE, ~(historyIndex > 0), <<>>)
       /\ undoRun' = IF ~(historyIndex > 0) THEN NoRun
                     ELSE IF undoRun.phase = "undo"
                          THEN [undoRun EXCEPT !.depth = @ + 1]
                          ELSE Seen([base |-> gridColors, depth |-> 1,
                                     phase |-> "undo"], NoRun)
       /\ beforeEdit' = EmptyObj
       /\ UNCHANGED <<history, selVars, palVars, imgVars, envVars, pendingSaves>>

RedoKey ==
    LET r == redo(build, gridColors, history, historyIndex)
    IN /\ historyIndex < Len(history) - 1 =>
              CanRestore(build, history[historyIndex + 2])
       /\ gridColors' = r.gridColors
       /\ historyIndex' = r.historyIndex
       /\ last' = Ran("redo", FALSE, ~(historyIndex < Len(history) - 1), <<>>)
       /\ undoRun' = IF historyIndex < Len(history) - 1 /\ undoRun.depth > 0
                     THEN [undoRun EXCEPT !.depth = @ - 1, !.phase = "redo"]
                     ELSE NoRun
       /\ beforeEdit' = EmptyObj
       /\ UNCHANGED <<history, selVars, palVars, imgVars, envVars, pendingSaves>>

\* the Undo / Redo buttons of app.js and appGem.js.  Both read the entry's
\* hexColors property: a GemGrid entry has none, JSON.stringify(undefined)
\* is undefined and JSON.parse(undefined) throws after the index has moved
ButtonRestore(b, o, snapshot) ==
    IF SnapshotField(b) = "hexColors"
    THEN [gridColors |-> RestoreColors(snapshot), threw |-> FALSE]
    ELSE [gridColors |-> o, threw |-> TRUE]

UndoButton ==
    /\ IF historyIndex > 0
       THEN LET r == ButtonRestore(build, gridColors, history[historyIndex])
            IN /\ historyIndex' = historyIndex - 1
               /\ gridColors' = r.gridColors
               /\ last' = Ran("undoButton", r.threw, FALSE, <<>>)
       ELSE /\ UNCHANGED <<historyIndex, gridColors>>
            /\ last' = Ran("undoButton", FALSE, TRUE, <<>>)
    /\ beforeEdit' = EmptyObj
    /\ undoRun' = NoRun
    /\ UNCHANGED <<history, selVars, palVars, imgVars, envVars, pendingSaves>>

RedoButton ==
    /\ IF historyIndex < Len(history) - 1
       THEN LET r == ButtonRestore(build, gridColors, history[historyIndex + 2])
            IN /\ historyIndex' = historyIndex + 1
               /\ gridColors' = r.gridColors
               /\ last' = Ran("redoButton", r.threw, FALSE, <<>>)
       ELSE /\ UNCHANGED <<historyIndex, gridColors>>
            /\ last' = Ran("redoButton", FALSE, TRUE, <<>>)
    /\ beforeEdit' = EmptyObj
    /\ undoRun' = NoRun
    /\ UNCHANGED <<history, selVars, palVars, imgVars, envVars, pendingSaves>>


\* ---------------------------------------------------------------- grid files
GridField(b) == IF b = "gem" THEN "gemColors" ELSE "hexColors"

\* loadFromJSON: returns at once when the cell map is missing; cols and rows
\* are taken from the file and at once reset by calculateDimensions
\* loadFromJSON of the HexGrid of part_001: the state is saved before the
\* load ("Save current state for undo") and the cell map of the file is
\* installed as it is
loadFromJSONBead(file, o, h, i, ncols, nrows) ==
    [gridColors |-> [cells |-> file.cells, wrap |-> <<>>],
     history |-> saveState(h, i, o).history,
     historyIndex |-> saveState(h, i, o).historyIndex,
     selectedCells |-> <<>>,
     cols |-> IF file.dims THEN targetCols ELSE ncols,
     rows |-> IF file.dims THEN targetRows ELSE nrows]

\* fault variant: the load resets the history to the snapshot it takes
loadFromJSONResets(b, file, o, h, i, sel, ncols, nrows) ==
    IF file.field # GridField(b)
    THEN [gridColors |-> o, history |-> h, historyIndex |-> i,
          selectedCells |-> sel, cols |-> ncols, rows |-> nrows]
    ELSE [gridColors |-> JsonClone([cells |-> file.cells, wrap |-> <<>>]),
          history |-> <<JsonClone([cells |-> file.cells, wrap |-> <<>>])>>,
          historyIndex |-> 0,
          selectedCells |-> <<>>,
          cols |-> IF file.dims THEN targetCols ELSE ncols,
          rows |-> IF file.dims THEN targetRows ELSE nrows]

loadFromJSON(b, file, o, h, i, sel, ncols, nrows) ==
    IF file.field # GridField(b)
    THEN [gridColors |-> o, history |-> h, historyIndex |-> i,
          selectedCells |-> sel, cols |-> ncols, rows |-> nrows]
    ELSE IF b = "bead" THEN loadFromJSONBead(file, o, h, i, ncols, nrows)
    ELSE LET loaded == JsonClone([cells |-> file.cells, wrap |-> <<>>])
             saved  == saveState(h, i, loaded)
         IN [gridColors |-> loaded,
             history |-> saved.history, historyIndex |-> saved.historyIndex,
             selectedCells |-> <<>>,
             cols |-> IF file.dims THEN targetCols ELSE ncols,
             rows |-> IF file.dims THEN targetRows ELSE nrows]

\* reader.onload of the Load Grid button (app.js, appGem.js)
LoadGrid(file) ==
    /\ UNCHANGED <<isSelecting, selectedColorIndex, pickerOpen, pickerColor, imgVars,
                   build, fullPalette, fetchPending, pendingSaves, reductions,
                   observing>>
    /\ beforeEdit' = EmptyObj
    /\ undoRun' = NoRun
    /\ IF ~file.parses
       THEN /\ UNCHANGED <<gridVars, selectedCells, cols, rows, colors>>
            /\ last' = Ran("loadGrid", TRUE, FALSE, <<>>)
       ELSE LET r == loadFromJSON(build, file, gridColors, history, historyIndex,
                                  selectedCells, cols, rows)
                hasPalette == Len(file.palette) = 1
                throws == hasPalette /\ AnyThrows(file.palette[1])
            IN /\ gridColors' = r.gridColors
               /\ history' = r.history
               /\ historyIndex' = r.historyIndex
               /\ selectedCells' = r.selectedCells
               /\ cols' = r.cols
               /\ rows' = r.rows
               /\ colors' = IF hasPalette /\ ~throws
                            THEN createPaletteUI(MapNormalize(file.palette[1]))
                            ELSE colors
               /\ last' = Ran("loadGrid", throws, file.field # GridField(build), <<>>)

\* ------------------------------------------------------- the full palette
\* loadFullColorPalette settles
FetchSettles(ok, fileColors) ==
    /\ fetchPending
    /\ fetchPending' = FALSE
    /\ fullPalette' = SettledPalette(ok, fileColors)
    /\ last' = Did("fetchSettled")
    /\ beforeEdit' = EmptyObj
    /\ undoRun' = NoRun
    /\ UNCHANGED <<build, cols, rows, gridVars, selVars, palVars, imgVars,
                   pendingSaves, reductions, observing>>


\* -------------------------------------------------------------- image load
UndefinedText == <<"u","n","d","e","f","i","n","e","d">>

\* the property name a value becomes when it is used as an object key
ToKey(v) == IF v = Undef THEN UndefinedText ELSE v

\* the colour processImage writes at each key, in scan order
ImageColors(img, keys, palette) ==
    [i \in 1..Len(keys) |->
        findClosestColor(rgbToHex(img[keys[i]].r, img[keys[i]].g, img[keys[i]].b),
                         palette)]

RECURSIVE PutEach(_, _, _)
PutEach(o, keys, values) ==
    IF Len(keys) = 0 THEN o
    ELSE PutEach(Put(o, Head(keys), Head(values)), Tail(keys), Tail(values))

\* colorCounts of processImage: [color, count] entries in insertion order
Counted(ks, ds) ==
    [i \in 1..Len(ds) |-> [color |-> ds[i], count |-> CountOf(ks, ds[i])]]

CountKeys(ks) == Counted(ks, Distinct(ks))

Histogram(values) == CountKeys([i \in 1..Len(values) |-> ToKey(values[i])])

HistogramKeys(hist) == [i \in 1..Len(hist) |-> hist[i].color]

\* Fault variant of processImage: every image replaces the first image's
\* palette
processImageOverwrites(keys, values, counts) ==
    /\ build = "gem" => pendingSaves < MaxPending
    /\ gridColors' = PutEach(gridColors, keys, values)
    /\ IF build = "hex"
       THEN /\ history' = saveState(history, historyIndex, gridColors).history
            /\ historyIndex' =
                   saveState(history, historyIndex, gridColors).historyIndex
            /\ UNCHANGED <<pendingSaves, winOriginalImageColors,
                           firstImagePalette, firstImagePaletteCounts>>
       ELSE /\ UNCHANGED <<history, historyIndex>>
            /\ pendingSaves' = pendingSaves + 1
            /\ winOriginalImageColors' = HistogramKeys(counts)
            /\ firstImagePaletteCounts' = counts
            /\ firstImagePalette' = HistogramKeys(counts)
    /\ originalImageColors' = counts
    /\ colors' = extractTopColors(counts)

\* processImage once the colour of every cell (values) and the histogram
\* (counts) are known.  The hex variant saves the state first; the gem
\* variant records the first image's palette and defers saveState to a timer
processImage(keys, values, counts) ==
    /\ build = "gem" => pendingSaves < MaxPending
    /\ gridColors' = PutEach(gridColors, keys, values)
    /\ IF build = "hex"
       THEN /\ history' = saveState(history, historyIndex, gridColors).history
            /\ historyIndex' =
                   saveState(history, historyIndex, gridColors).historyIndex
            /\ UNCHANGED <<pendingSaves, winOriginalImageColors,
                           firstImagePalette, firstImagePaletteCounts>>
       ELSE /\ UNCHANGED <<history, historyIndex>>
            /\ pendingSaves' = pendingSaves + 1
            /\ winOriginalImageColors' = HistogramKeys(counts)
            /\ firstImagePaletteCounts' =
                   IF firstImagePaletteCounts = <<>> THEN counts
                   ELSE firstImagePaletteCounts
            /\ firstImagePalette' =
                   IF firstImagePalette = <<>> THEN HistogramKeys(counts)
                   ELSE firstImagePalette
    /\ originalImageColors' = counts
    /\ colors' = extractTopColors(counts)

ScanImage(img, keys, values) == processImage(keys, values, Histogram(values))

\* img.onload of loadImageToGrid
LoadImage(img) ==
    /\ ScanImage(img, GridKeys(0, cols, rows),
                 ImageColors(img, GridKeys(0, cols, rows), fullPalette))
    /\ last' = Did("loadImage")
    /\ beforeEdit' = EmptyObj
    /\ undoRun' = NoRun
    /\ UNCHANGED <<selVars, selectedColorIndex, pickerOpen, pickerColor, envVars>>

\* the setTimeout(() => gemGrid.saveState(), 0) callback of processImage
DeferredSaveState ==
    LET saved == saveState(history, historyIndex, gridColors)
    IN /\ pendingSaves > 0
       /\ pendingSaves' = pendingSaves - 1
       /\ history' = saved.history
       /\ historyIndex' = saved.historyIndex
       /\ last' = Did("deferredSave")
       /\ beforeEdit' = EmptyObj
       /\ undoRun' = NoRun
       /\ UNCHANGED <<gridColors, selVars, palVars, imgVars, envVars>>

\* ---------------------------------------------------------- colour reduction
MAX_ITERATIONS == 50

\* hexToRgb calls hex.replace: a TypeError unless hex is a string
hexToRgbThrows(hex) == ~IsString(hex)

AnyNotString(cs) == \E i \in 1..Len(cs) : hexToRgbThrows(cs[i])

ToRgbAll(cs) == [i \in 1..Len(cs) |-> hexToRgb(cs[i])]

\* the k-means loop shared by both reduceColors: points are rgbColors,
\* clusters the cluster index of every point (1-based here)
ClusterOf(point, centroids) ==
    FirstMinimum([j \in 1..Len(centroids) |-> colorDistance(point, centroids[j])])

AssignClusters(points, centroids) ==
    [i \in 1..Len(points) |-> ClusterOf(points[i], centroids)]

AddRgb(a, b) == [r |-> a.r + b.r, g |-> a.g + b.g, b |-> a.b + b.b]

RECURSIVE ClusterSum(_, _, _, _)
ClusterSum(points, clusters, c, n) ==
    IF n = 0 THEN [r |-> 0, g |-> 0, b |-> 0]
    ELSE IF clusters[n] = c
         THEN AddRgb(ClusterSum(points, clusters, c, n - 1), points[n])
         ELSE ClusterSum(points, clusters, c, n - 1)

\* Math.round(sum / count) for sum >= 0, count > 0
RoundDiv(sum, count) == (2 * sum + count) \div (2 * count)

MeanRgb(sum, count) ==
    [r |-> RoundDiv(sum.r, count), g |-> RoundDiv(sum.g, count),
     b |-> RoundDiv(sum.b, count)]

ClusterSize(clusters, c) == Cardinality({i \in 1..Len(clusters) : clusters[i] = c})

MoveCentroids(points, clusters, centroids) ==
    [c \in 1..Len(centroids) |->
        IF ClusterSize(clusters, c) > 0
        THEN MeanRgb(ClusterSum(points, clusters, c, Len(points)),
                     ClusterSize(clusters, c))
        ELSE centroids[c]]

RECURSIVE KMeansLoop(_, _, _, _)
RECURSIVE KMeansPass(_, _, _, _, _)
KMeansPass(points, centroids, clusters, iterations, newClusters) ==
    IF newClusters = clusters \/ iterations >= MAX_ITERATIONS
    THEN MoveCentroids(points, newClusters, centroids)
    ELSE KMeansLoop(points, MoveCentroids(points, newClusters, centroids),
                    newClusters, iterations)

KMeansLoop(points, centroids, clusters, iterations) ==
    KMeansPass(points, centroids, clusters, iterations + 1,
               AssignClusters(points, centroids))

CentroidsToHex(centroids) ==
    [i \in 1..Len(centroids) |->
        rgbToHex(centroids[i].r, centroids[i].g, centroids[i].b)]

\* k-means from the first k of colors as centroids, over the points of
\* paletteToUse; every cluster index starts at 0 (1 here)
KMeans(cs, paletteToUse, k) ==
    CentroidsToHex(
        KMeansLoop(ToRgbAll(paletteToUse),
                   ToRgbAll([i \in 1..(IF k < Len(cs) THEN k ELSE Len(cs))
                                |-> ToKey(cs[i])]),
                   [i \in 1..Len(paletteToUse) |-> 1], 0))

Reduced(cs) == [throws |-> FALSE, hangs |-> FALSE, colors |-> cs]
ReduceThrows == [throws |-> TRUE, hangs |-> FALSE, colors |-> <<>>]
ReduceHangs == [throws |-> FALSE, hangs |-> TRUE, colors |-> <<>>]

\* reduceColors of the hex build, existing-palette branch: map the colours
\* to palette colours until k distinct ones are found
RECURSIVE MapToPalette(_, _, _, _, _)
RECURSIVE MapOneToPalette(_, _, _, _, _)
MapOneToPalette(cs, i, k, paletteColors, unique) ==
    IF Len(unique) >= k THEN Reduced(unique)
    ELSE MapToPalette(cs, i + 1, k, paletteColors, unique)

MapToPalette(cs, i, k, paletteColors, unique) ==
    IF i > Len(cs) THEN Reduced(unique)
    ELSE IF hexToRgbThrows(cs[i]) THEN ReduceThrows
    ELSE MapOneToPalette(cs, i, k, paletteColors,
             AddKey(unique, findClosestColor(cs[i], paletteColors)))

\* the while loop that tops the result up from the palette: it does not end
\* when the palette colour at the result's length is already in the result
RECURSIVE FillFromPalette(_, _, _)
FillFromPalette(resultColors, k, paletteColors) ==
    IF Len(resultColors) < k /\ Len(resultColors) < Len(paletteColors)
    THEN IF paletteColors[Len(resultColors) + 1] \in Range(resultColors)
         THEN ReduceHangs
         ELSE FillFromPalette(
                  Append(resultColors, paletteColors[Len(resultColors) + 1]),
                  k, paletteColors)
    ELSE Reduced(resultColors)

FirstK(cs, k) == IF Len(cs) > k THEN SubSeq(cs, 1, k) ELSE cs

FillMapped(mapped, k, paletteColors) ==
    IF mapped.throws THEN mapped
    ELSE FillFromPalette(FirstK(mapped.colors, k), k, paletteColors)

NotWhite(cs) == SelectSeq(cs, LAMBDA c : c # White)

\* ColorUtils.reduceColors loaded by the hex build
reduceColorsHex(cs, k, paletteNow) ==
    IF Len(cs) <= k THEN Reduced(cs)
    ELSE IF Len(NotWhite(paletteNow)) > 0
         THEN FillMapped(MapToPalette(cs, 1, k, NotWhite(paletteNow), <<>>),
                         k, NotWhite(paletteNow))
         ELSE IF AnyNotString(cs) THEN ReduceThrows
              ELSE Reduced(KMeans(cs, cs, k))

\* the count a histogram holds for a colour (0 when absent)
CountIn(hist, color) ==
    IF \E i \in 1..Len(hist) : hist[i].color = color
    THEN hist[CHOOSE i \in 1..Len(hist) : hist[i].color = color].count
    ELSE 0

SortedByCount(cs, hist) ==
    HistogramKeys(StableSort(
        [i \in 1..Len(cs) |-> [color |-> cs[i], count |-> CountIn(hist, cs[i])]],
        "count"))

\* the assign/recompute rounds over the colours given, from given centroids
RefinedFrom(cs, seeds) ==
    CentroidsToHex(KMeansLoop(ToRgbAll(cs), ToRgbAll(seeds),
                              [i \in 1..Len(cs) |-> 1], 0))

\* fault variant: the first image's palette only seeds the k-means rounds
reduceColorsGemRefines(cs, k, firstPalette, firstCounts, winColors) ==
    IF Len(cs) <= k THEN Reduced(cs)
    ELSE IF AnyNotString(cs) THEN ReduceThrows
    ELSE IF Len(firstPalette) > 0 /\ Len(firstCounts) > 0
         THEN Reduced(RefinedFrom(cs, FirstK(SortedByCount(firstPalette, firstCounts), k)))
         ELSE Reduced(KMeans(cs, IF Len(winColors) > 0 THEN winColors ELSE cs, k))

\* ColorUtils.reduceColors loaded by the gem build: the first image's
\* palette when there is one, else k-means over window.originalImageColors
\* or over the colours given
reduceColorsGem(cs, k, firstPalette, firstCounts, winColors) ==
    IF Len(cs) <= k THEN Reduced(cs)
    ELSE IF Len(firstPalette) > 0 /\ Len(firstCounts) > 0
         THEN Reduced(FirstK(SortedByCount(firstPalette, firstCounts), k))
         ELSE IF Len(winColors) > 0
              THEN Reduced(KMeans(cs, winColors, k))
              ELSE IF AnyNotString(cs) THEN ReduceThrows
                   ELSE Reduced(KMeans(cs, cs, k))

\* ColorUtils.reduceColors of colorUtils2.js: the k colours of lowest
\* r+g+b are the base palette; the colours are mapped to it until k distinct
\* ones are found, and the result is topped up from the base palette
SortedByValue(cs) ==
    HistogramKeys(StableSort([i \in 1..Len(cs) |-> [color |-> cs[i], count |-> 0]],
                             "value"))

RECURSIVE FillFromBase(_, _, _, _)
FillFromBase(resultColors, k, basePalette, i) ==
    IF i > Len(basePalette) \/ Len(resultColors) >= k THEN resultColors
    ELSE FillFromBase(AddKey(resultColors, basePalette[i]), k, basePalette, i + 1)

LowestFrom(cs, k, basePalette) ==
    Reduced(FillFromBase(FirstK(MapToPalette(cs, 1, k, basePalette, <<>>).colors, k),
                         k, basePalette, 1))

reduceColorsLowest(cs, k) ==
    IF Len(cs) <= k THEN Reduced(cs)
    ELSE IF AnyNotString(cs) THEN ReduceThrows
    ELSE LowestFrom(cs, k, FirstK(SortedByValue(cs), k))

\* the colour map of applyColorReduction and applyColorMapping: [from, to]
\* entries, from being the property name
MapHas(colorMap, v) == \E i \in 1..Len(colorMap) : colorMap[i].from = ToKey(v)

MapGet(colorMap, v) ==
    colorMap[CHOOSE i \in 1..Len(colorMap) : colorMap[i].from = ToKey(v)].to

\* Fault variant of applyColorMapping: a cell whose colour has no entry is
\* reset to the default colour
applyColorMappingResets(o, h, i, colorMap) ==
    [gridColors |->
        [o EXCEPT !.cells =
            [n \in 1..Len(o.cells) |->
                IF MapHas(colorMap, o.cells[n].v)
                THEN [k |-> o.cells[n].k, v |-> MapGet(colorMap, o.cells[n].v)]
                ELSE [k |-> o.cells[n].k, v |-> White]]],
     history |-> saveState(h, i, o).history,
     historyIndex |-> saveState(h, i, o).historyIndex]

\* applyColorMapping: saveState, then every own property whose value has
\* an entry in colorMap takes the mapped value
applyColorMapping(o, h, i, colorMap) ==
    [gridColors |->
        [o EXCEPT !.cells =
            [n \in 1..Len(o.cells) |->
                IF MapHas(colorMap, o.cells[n].v)
                THEN [k |-> o.cells[n].k, v |-> MapGet(colorMap, o.cells[n].v)]
                ELSE o.cells[n]]],
     history |-> saveState(h, i, o).history,
     historyIndex |-> saveState(h, i, o).historyIndex]

ClosestMap(cs, reducedColors) ==
    [i \in 1..Len(cs) |->
        [from |-> ToKey(cs[i]), to |-> findClosestColor(cs[i], reducedColors)]]

Reduce(b, cs, k) ==
    IF b = "hex" THEN reduceColorsHex(cs, k, colors)
    ELSE reduceColorsGem(cs, k, firstImagePalette, firstImagePaletteCounts,
                         winOriginalImageColors)

\* window.firstImagePalette once the gem build's reduceColors has gone past
\* its first-image branch: a copy of window.originalImageColors when set
FirstPaletteAfter ==
    IF build = "gem" /\ ~(Len(firstImagePalette) > 0
                          /\ Len(firstImagePaletteCounts) > 0)
                     /\ Len(winOriginalImageColors) > 0
    THEN winOriginalImageColors ELSE firstImagePalette

\* applyColorReduction with the colours in use and the result of reduceColors
ReduceGrid(k, used, reduced) ==
    IF reduced.throws \/ AnyNotString(used)
    THEN /\ UNCHANGED <<gridVars, colors, reductions>>
         /\ firstImagePalette' =
                IF ~reduced.throws THEN FirstPaletteAfter ELSE firstImagePalette
         /\ last' = Ran("reduce", TRUE, FALSE, k)
         /\ beforeEdit' = EmptyObj
    ELSE /\ reductions < MaxReductions
         /\ reductions' = reductions + 1
         /\ gridColors' = applyColorMapping(gridColors, history, historyIndex,
                              ClosestMap(used, reduced.colors)).gridColors
         /\ history' = saveState(history, historyIndex, gridColors).history
         /\ historyIndex' = saveState(history, historyIndex, gridColors).historyIndex
         /\ colors' = createPaletteUI(reduced.colors)
         /\ firstImagePalette' = FirstPaletteAfter
         /\ last' = Ran("reduce", FALSE, FALSE, k)
         /\ beforeEdit' = Seen(gridColors, EmptyObj)

ReduceUsed(k, used) ==
    IF Len(used) <= k
    THEN /\ UNCHANGED <<gridVars, colors, firstImagePalette, reductions>>
         /\ last' = Ran("reduce", FALSE, TRUE, k)
         /\ beforeEdit' = EmptyObj
    ELSE /\ ~Reduce(build, used, k).hangs
         /\ ReduceGrid(k, used, Reduce(build, used, k))

\* the Reduce Colors button: applyColorReduction with the number typed
\* into targetColorCount
ApplyColorReduction(k) ==
    /\ IF k < 1
       THEN /\ UNCHANGED <<gridVars, colors, firstImagePalette, reductions>>
            /\ last' = Ran("reduce", FALSE, TRUE, k)
            /\ beforeEdit' = EmptyObj
       ELSE ReduceUsed(k, getAllColors(gridColors))
    /\ undoRun' = NoRun
    /\ UNCHANGED <<selVars, selectedColorIndex, pickerOpen, pickerColor, build,
                   cols, rows, fullPalette, fetchPending, pendingSaves,
                   originalImageColors, winOriginalImageColors,
                   firstImagePaletteCounts, observing>>

\* applyColorMapping called with a colour map of the caller's choice
ApplyColorMapping(colorMap) ==
    /\ gridColors' =
           applyColorMapping(gridColors, history, historyIndex, colorMap).gridColors
    /\ history' = applyColorMapping(gridColors, history, historyIndex, colorMap).history
    /\ historyIndex' =
           applyColorMapping(gridColors, history, historyIndex, colorMap).historyIndex
    /\ last' = Did("applyMapping")
    /\ beforeEdit' = Seen(gridColors, EmptyObj)
    /\ undoRun' = NoRun
    /\ UNCHANGED <<selVars, palVars, imgVars, envVars, pendingSaves>>

\* reduceColors called with colours and a count of the caller's choice, in
\* the session state of the moment.  A call that never returns leaves the
\* page in its loop: out.hangs
ReduceReturns(variant, cs, k, out) ==
    last' = Ran("reduceColors", out.throws, FALSE,
                [variant |-> variant, colors |-> cs, k |-> k, out |-> out])

ReduceColors(cs, k) ==
    /\ ReduceReturns(build, cs, k, Reduce(build, cs, k))
    /\ firstImagePalette' =
           IF Len(cs) > k THEN FirstPaletteAfter ELSE firstImagePalette
    /\ beforeEdit' = EmptyObj
    /\ undoRun' = NoRun
    /\ UNCHANGED <<gridVars, selVars, palVars, envVars, pendingSaves,
                   originalImageColors, winOriginalImageColors,
                   firstImagePaletteCounts>>

ReduceColorsLowest(cs, k) ==
    /\ ReduceReturns("lowest", cs, k, reduceColorsLowest(cs, k))
    /\ beforeEdit' = EmptyObj
    /\ undoRun' = NoRun
    /\ UNCHANGED <<gridVars, selVars, palVars, imgVars, envVars, pendingSaves>>

\* findClosestColor called with a target and candidates of the caller's choice
FindClosestColor(targetHex, palette) ==
    /\ last' = Ran("findClosestColor", FALSE, FALSE,
                   [target |-> targetHex, candidates |-> palette,
                    out |-> findClosestColor(targetHex, palette)])
    /\ beforeEdit' = EmptyObj
    /\ undoRun' = NoRun
    /\ UNCHANGED <<gridVars, selVars, palVars, imgVars, envVars, pendingSaves>>

\* setOriginalImageColors called with a histogram of the caller's choice
SetOriginalImageColors(colorCounts) ==
    /\ originalImageColors' = colorCounts
    /\ colors' = extractTopColors(colorCounts)
    /\ last' = Did("setOriginalImageColors")
    /\ beforeEdit' = EmptyObj
    /\ undoRun' = NoRun
    /\ UNCHANGED <<gridVars, selVars, selectedColorIndex, pickerOpen, pickerColor,
                   winOriginalImageColors, firstImagePalette,
                   firstImagePaletteCounts, envVars, pendingSaves>>

\* ------------------------------------------------------------ palette edits
\* the colours the wheel can produce here, as [r, g, b]
WheelValues == { [r |-> 0, g |-> 0, b |-> 0] }

OpenColorPicker(slot) ==
    /\ ~pickerOpen
    /\ selectedColorIndex' = slot - 1
    /\ pickerColor' = colors[slot]
    /\ pickerOpen' = TRUE
    /\ last' = Did("openColorPicker")
    /\ beforeEdit' = EmptyObj
    /\ undoRun' = NoRun
    /\ UNCHANGED <<colors, gridVars, selVars, imgVars, envVars, pendingSaves>>

\* handleColorSelection of the wheel
PickColor(rgb) ==
    /\ pickerOpen
    /\ pickerColor' = rgbToHex(rgb.r, rgb.g, rgb.b)
    /\ last' = Did("pickColor")
    /\ beforeEdit' = EmptyObj
    /\ undoRun' = NoRun
    /\ UNCHANGED <<colors, selectedColorIndex, pickerOpen, gridVars, selVars,
                   imgVars, envVars, pendingSaves>>

updateColorFromPicker(cs, index, color) ==
    IF index >= 0 /\ index < Len(cs)
    THEN createPaletteUI([cs EXCEPT ![index + 1] = color])
    ELSE cs

\* saveColor of the picker
SaveColor ==
    /\ pickerOpen
    /\ colors' = updateColorFromPicker(colors, selectedColorIndex, pickerColor)
    /\ pickerOpen' = FALSE
    /\ last' = Did("saveColor")
    /\ beforeEdit' = EmptyObj
    /\ undoRun' = NoRun
    /\ UNCHANGED <<selectedColorIndex, pickerColor, gridVars, selVars, imgVars,
                   envVars, pendingSaves>>

CancelColor ==
    /\ pickerOpen
    /\ pickerOpen' = FALSE
    /\ last' = Did("cancelColor")
    /\ beforeEdit' = EmptyObj
    /\ undoRun' = NoRun
    /\ UNCHANGED <<colors, selectedColorIndex, pickerColor, gridVars, selVars,
                   imgVars, envVars, pendingSaves>>

\* the change handler of a slot's hex input
updateColorFromInput(cs, index, text) ==
    IF IsValid(text) THEN [cs EXCEPT ![index + 1] = Normalized(text)] ELSE cs

UpdateColorFromInput(slot, text) ==
    /\ colors' = updateColorFromInput(colors, slot - 1, text)
    /\ last' = Ran("hexInput", FALSE, ~IsValid(text), text)
    /\ beforeEdit' = EmptyObj
    /\ undoRun' = NoRun
    /\ UNCHANGED <<selectedColorIndex, pickerOpen, pickerColor, gridVars, selVars,
                   imgVars, envVars, pendingSaves>>

\* reader.onload of handlePaletteFileSelect
ValidColors(cs) == SelectSeq(cs, IsValid)

importPalette(cs, file) ==
    IF file.parses /\ Len(ValidColors(file.colors)) > 0
                   /\ ~AnyThrows(ValidColors(file.colors))
    THEN createPaletteUI(MapNormalize(ValidColors(file.colors)))
    ELSE cs

ImportPalette(file) ==
    /\ UNCHANGED <<selectedColorIndex, pickerOpen, pickerColor, gridVars, selVars,
                   imgVars, envVars, pendingSaves>>
    /\ beforeEdit' = EmptyObj
    /\ undoRun' = NoRun
    /\ colors' = importPalette(colors, file)
    /\ last' = Ran("importPalette",
                   ~file.parses \/ AnyThrows(ValidColors(file.colors)),
                   file.parses /\ Len(ValidColors(file.colors)) = 0, <<>>)

\* ------------------------------------------------------------ specification
Next ==
    \/ \E t \in MouseTargets : HandleMouseDown(t)
    \/ \E t \in MouseTargets : HandleMouseMove(t)
    \/ HandleMouseUp
    \/ \E t \in MouseTargets : HandleDoubleClick(t)
    \/ ClearSelection
    \/ \E slot \in Slots : ApplySelectedColor(slot)
    \/ ClearGrid
    \/ UndoKey
    \/ RedoKey
    \/ UndoButton
    \/ RedoButton
    \/ \E file \in GridFiles : LoadGrid(file)
    \/ \E ok \in BOOLEAN, fc \in PaletteFileColors : FetchSettles(ok, fc)
    \/ \E img \in Images : LoadImage(img)
    \/ DeferredSaveState
    \/ \E slot \in Slots : OpenColorPicker(slot)
    \/ \E rgb \in WheelValues : PickColor(rgb)
    \/ SaveColor
    \/ CancelColor
    \/ \E slot \in Slots, text \in TypedTexts : UpdateColorFromInput(slot, text)
    \/ \E file \in PaletteFiles : ImportPalette(file)
    \/ \E k \in TargetCounts : ApplyColorReduction(k)

Spec == Init /\ [][Next]_vars

\* the initial states with and without the observer
InitObserved == Init /\ observing = TRUE
InitPlain == Init /\ observing = FALSE
ReadyObserved == InitReady /\ observing = TRUE
ReadyPlain == InitReady /\ observing = FALSE

\* The editing session: selecting, painting, clearing, Ctrl+Z / Ctrl+Y, and
\* the hex input of the first slot as the source of a colour to paint with
NextEdit ==
    \/ \E t \in MouseTargets : HandleMouseDown(t)
    \/ \E t \in MouseTargets : HandleDoubleClick(t)
    \/ \E text \in TypedTexts : UpdateColorFromInput(1, text)
    \/ \E slot \in Slots : ApplySelectedColor(slot)
    \/ ClearGrid
    \/ UndoKey
    \/ RedoKey

SpecEdit == InitObserved /\ [][NextEdit]_vars

\* Every handler that reaches the grid's colour map or its history, once the
\* full palette is there
LightPixel == [r |-> 250, g |-> 250, b |-> 250]
RedPixel == [r |-> 250, g |-> 5, b |-> 5]
DarkPixel == [r |-> 10, g |-> 10, b |-> 10]

\* images whose first pixel is reddish
RedFirst(pixels) ==
    { [key \in Range(GridKeys(0, targetCols, targetRows)) |->
          IF key = <<0, 0>> THEN RedPixel ELSE p] : p \in pixels }

HistoryImages == RedFirst({RedPixel, LightPixel})

HistoryFiles ==
    { [parses |-> TRUE, field |-> "hexColors", cells |-> FullCells(Red, White),
       dims |-> TRUE, palette |-> << <<(<<"f","0","0">>)>> >>],
      [parses |-> TRUE, field |-> "gemColors",
       cells |-> << [k |-> <<1, 0>>, v |-> Red],
                    [k |-> <<targetCols, 0>>, v |-> Red] >>,
       dims |-> FALSE, palette |-> <<>>],
      [parses |-> FALSE, field |-> "hexColors", cells |-> <<>>, dims |-> FALSE,
       palette |-> <<>>] }

NextHistory ==
    \/ \E t \in {<<0, 0>>, Outside} : HandleMouseDown(t)
    \/ ApplySelectedColor(1)
    \/ ClearGrid
    \/ UndoKey
    \/ RedoKey
    \/ UndoButton
    \/ RedoButton
    \/ \E file \in HistoryFiles : LoadGrid(file)
    \/ \E img \in HistoryImages : LoadImage(img)
    \/ DeferredSaveState
    \/ \E k \in {0, 1} : ApplyColorReduction(k)

SpecHistory == ReadyPlain /\ [][NextHistory]_vars

\* applyColorMapping under colour maps of every shape, on grids made by
\* image loads, undo and the colour reduction
MapColors == <<White, Red, Black>>

EntriesOf(f) ==
    [n \in 1..Len(SelectSeq(<<1, 2, 3>>, LAMBDA i : f[i] # 0)) |->
        [from |-> MapColors[SelectSeq(<<1, 2, 3>>, LAMBDA i : f[i] # 0)[n]],
         to   |-> MapColors[f[SelectSeq(<<1, 2, 3>>, LAMBDA i : f[i] # 0)[n]]]]]

\* f[i] = 0: no entry for MapColors[i]; else its entry maps to MapColors[f[i]]
MapChoices ==
    { f \in [1..3 -> 0..3] : f[1] \in {0, 1} /\ f[2] \in {0, 2, 3} /\ f[3] \in {0, 3, 1} }

ColorMaps == { EntriesOf(f) : f \in MapChoices }

MappingImages == RedFirst({RedPixel, DarkPixel})

NextMapping ==
    \/ \E img \in MappingImages : LoadImage(img)
    \/ DeferredSaveState
    \/ \E colorMap \in ColorMaps : ApplyColorMapping(colorMap)
    \/ ApplyColorReduction(1)
    \/ UndoKey

SpecMapping == ReadyObserved /\ [][NextMapping]_vars

\* Every handler that changes the palette
PaletteGridFiles ==
    { [parses |-> TRUE, field |-> fld, cells |-> FullCells(Red, White),
       dims |-> TRUE, palette |-> <<p>>] :
        fld \in {"hexColors", "gemColors"},
        p \in { <<(<<"f","0","0">>)>>, [i \in 1..(PaletteSize + 1) |-> Black],
                <<Red, NumberValue>> } }

NextPalette ==
    \/ \E img \in HistoryImages : LoadImage(img)
    \/ DeferredSaveState
    \/ \E file \in PaletteGridFiles : LoadGrid(file)
    \/ \E file \in PaletteFiles : ImportPalette(file)
    \/ \E k \in TargetCounts : ApplyColorReduction(k)
    \/ \E slot \in Slots : OpenColorPicker(slot)
    \/ \E rgb \in WheelValues : PickColor(rgb)
    \/ SaveColor
    \/ CancelColor
    \/ \E slot \in Slots, text \in TypedTexts : UpdateColorFromInput(slot, text)

SpecPalette == ReadyPlain /\ [][NextPalette]_vars

\* extractTopColors on histograms of up to three of four colours, and on the
\* twelve colours of the default palette
Green == <<"#","0","0","F","F","0","0">>

HistogramColors == {Red, Green, Blue, Black}
HistogramCounts == {1, 5}

ShortHistograms ==
    { h \in UNION { [1..n -> [color : HistogramColors, count : HistogramCounts]] :
                    n \in 1..3 } :
        \A i, j \in 1..Len(h) : i # j => h[i].color # h[j].color }

LongHistograms ==
    { [i \in 1..Len(DefaultFullPalette) |->
          [color |-> DefaultFullPalette[i], count |-> IF i % 2 = d THEN 5 ELSE 1]] :
        d \in {0, 1} }

Histograms == ShortHistograms \cup LongHistograms

NextExtract == \E colorCounts \in Histograms : SetOriginalImageColors(colorCounts)

SpecExtract == ReadyObserved /\ [][NextExtract]_vars

\* reduceColors and findClosestColor in the session states an image load
\* leaves: no image yet, a first image of one, two or three colours.  The
\* container is one row taller here, so that a first image can hold a colour
\* more often than the colour met before it
TallRows == targetRows + 1

ReadyTall ==
    /\ ConstructedAt(targetCols, TallRows)
    /\ fullPalette = SettledPalette(FALSE, <<>>)
    /\ fetchPending = FALSE
    /\ observing = TRUE

\* images given by their pixels in scan order
\* (repeated from the first pixel on when the grid has more cells)
ScanIndex(key) ==
    CHOOSE i \in 1..(targetCols * TallRows) : GridKeys(0, targetCols, TallRows)[i] = key

ImageOf(pixels) ==
    [key \in Range(GridKeys(0, targetCols, TallRows)) |->
        pixels[((ScanIndex(key) - 1) % Len(pixels)) + 1]]

ReduceImages ==
    { ImageOf(<<RedPixel, RedPixel, RedPixel, RedPixel>>),
      ImageOf(<<RedPixel, DarkPixel, RedPixel, DarkPixel>>),
      ImageOf(<<DarkPixel, RedPixel, RedPixel, RedPixel>>),
      ImageOf(<<RedPixel, DarkPixel, DarkPixel, LightPixel>>) }

Dark8 == <<"#","0","8","0","8","0","8">>
Dark16 == <<"#","1","0","1","0","1","0">>
Grey == <<"#","8","0","8","0","8","0">>

ReduceInputs ==
    { <<Black, Dark8, White>>, <<White, Dark8, Black>>, <<Black, Dark8, Dark16>>,
      <<Red, Black>>, <<Red, White, Black, Dark8>>, <<Red>> }

ReduceTargets == {1, 2, 3}

ClosestTargets == {Black, Grey, Dark8}

ClosestCandidates ==
    { <<Red, Blue>>, <<Blue, Red>>, <<Black, White>>, <<White, Dark16, Dark16, Black>>,
      <<Green>> }

\* a call of reduceColors that has not returned
Hung == last.op = "reduceColors" /\ last.arg.out.hangs

NextReduce ==
    \/ ~Hung /\ Len(history) < HistoryLimit /\ \E img \in ReduceImages : LoadImage(img)
    \/ ~Hung /\ DeferredSaveState
    \/ ~Hung /\ \E cs \in ReduceInputs, k \in ReduceTargets : ReduceColors(cs, k)
    \/ ~Hung /\ \E cs \in ReduceInputs, k \in ReduceTargets : ReduceColorsLowest(cs, k)
    \/ ~Hung /\ \E targetHex \in ClosestTargets, palette \in ClosestCandidates :
                    FindClosestColor(targetHex, palette)

SpecReduce == ReadyTall /\ [][NextReduce]_vars

\* The fetch of the full palette racing with image loads: the user may pick
\* an image before the fetch has settled
FetchImages == RedFirst({RedPixel, DarkPixel, LightPixel})

FetchFileColors ==
    PaletteFileColors \cup { <<(<<"#","f","0","0">>), NumberValue>>, <<Grey, Grey>> }

NextFetch ==
    \/ \E ok \in BOOLEAN, fileColors \in FetchFileColors : FetchSettles(ok, fileColors)
    \/ \E img \in FetchImages : LoadImage(img)
    \/ DeferredSaveState

SpecFetch == InitObserved /\ [][NextFetch]_vars

\* Loading grid files into a grid with a history: the three grid classes,
\* edits and undo/redo before the load
LoadFiles ==
    { [parses |-> TRUE, field |-> fld, cells |-> FullCells(c, White),
       dims |-> TRUE, palette |-> <<>>] :
        fld \in {"hexColors", "gemColors"}, c \in {Red, Black} }

ReadyLoad ==
    /\ ConstructedAs({"hex", "gem", "bead"}, targetCols, targetRows)
    /\ fullPalette = SettledPalette(FALSE, <<>>)
    /\ fetchPending = FALSE
    /\ observing = TRUE

NextLoad ==
    \/ \E t \in {<<0, 0>>, <<1, 0>>} : HandleMouseDown(t)
    \/ ApplySelectedColor(1)
    \/ ClearGrid
    \/ UndoKey
    \/ RedoKey
    \/ \E file \in LoadFiles : LoadGrid(file)

SpecLoad == ReadyLoad /\ [][NextLoad]_vars

\* Every way to a changed grid from the page: edit, clear, reduction, undo
\* and redo by key and by button, and grid files, with their failures
ButtonFiles ==
    { [parses |-> p, field |-> fld, cells |-> FullCells(Black, Red),
       dims |-> TRUE, palette |-> pal] :
        p \in BOOLEAN, fld \in {"hexColors", "gemColors"},
        pal \in { <<>>, << <<Red, NumberValue>> >> } }

NextButtons ==
    \/ HandleMouseDown(<<0, 0>>)
    \/ ApplySelectedColor(1)
    \/ ClearGrid
    \/ UndoKey
    \/ RedoKey
    \/ UndoButton
    \/ RedoButton
    \/ \E file \in ButtonFiles : LoadGrid(file)
    \/ ApplyColorReduction(1)

SpecButtons == ReadyObserved /\ [][NextButtons]_vars

\* The paths by which a colour comes to a cell or to a slot, once the full
\* palette is there: image, grid file, hex input, painting and reduction
\* (palette files and the picker are in SpecPalette)
CanonFiles ==
    { [parses |-> TRUE, field |-> fld, cells |-> FullCells(c, White),
       dims |-> TRUE, palette |-> pal] :
        fld \in {"hexColors", "gemColors"},
        c \in {Red, <<"#","f","0","0">>},
        pal \in { <<>>, << <<(<<"#","g","g","g">>)>> >> } }

NextCanon ==
    \/ \E img \in HistoryImages : LoadImage(img)
    \/ DeferredSaveState
    \/ \E file \in CanonFiles : LoadGrid(file)
    \/ \E text \in TypedTexts : UpdateColorFromInput(1, text)
    \/ HandleMouseDown(<<0, 0>>)
    \/ ApplySelectedColor(1)
    \/ ApplyColorReduction(1)

SpecCanon == ReadyObserved /\ [][NextCanon]_vars

\* Selecting with the mouse on grids that edits, undo/redo and grid files,
\* one of them with a cell outside the grid's extent, have made
SelectFiles == {file \in GridFiles : Len(file.palette) = 0}

NextSelect ==
    \/ \E t \in MouseTargets : HandleMouseDown(t)
    \/ \E t \in MouseTargets : HandleMouseMove(t)
    \/ HandleMouseUp
    \/ \E t \in MouseTargets : HandleDoubleClick(t)
    \/ ClearSelection
    \/ ApplySelectedColor(1)
    \/ UndoKey
    \/ RedoKey
    \/ \E file \in SelectFiles : LoadGrid(file)

SpecSelect == ReadyObserved /\ [][NextSelect]_vars

\* ------------------------------------------------------------- properties
CoordinateKeys(o) == {o.cells[i].k : i \in 1..Len(o.cells)}
InRangeKeys == Range(GridKeys(0, cols, rows))

\* two colour maps answer every coordinate lookup alike
SameMapping(o1, o2) ==
    \A key \in CoordinateKeys(o1) \cup CoordinateKeys(o2) \cup InRangeKeys :
        Get(o1, key) = Get(o2, key)

\* this step has pushed exactly one snapshot: the entries up to the cursor
\* are kept (less the oldest when the history was full), the new entry is
\* the last one, answers the lookups of the grid before the step, and the
\* cursor is on it
PushedOne ==
    /\ Len(history') >= 1
    /\ historyIndex' = Len(history') - 1
    /\ Front(history') =
           IF historyIndex + 1 = HistoryLimit
           THEN SubSeq(history, 2, historyIndex + 1)
           ELSE SubSeq(history, 1, historyIndex + 1)
    /\ SameMapping(Last(history'), gridColors)

\* the step before was an edit that pushed a snapshot
EditJustRan ==
    /\ last.op \in {"applyColor", "clearGrid", "applyMapping", "reduce"}
    /\ ~last.noop
    /\ ~last.threw

\* C1: right after an edit that pushes a snapshot, one undo() makes the
\* grid's coordinate-to-colour mapping what it was just before that edit,
\* the first edit on a fresh grid included.
C1_UndoRestoresPreEdit ==
    [][(EditJustRan /\ UndoKey) => SameMapping(gridColors', beforeEdit)]_vars

\* C2: n state-changing undo() calls followed by n redo() calls, with no
\* edit in between, leave the grid's mapping what it was before the first
\* of those undos.
C2_UndoRedoIdentity ==
    (undoRun.phase = "redo" /\ undoRun.depth = 0)
        => SameMapping(gridColors, undoRun.base)

\* C3: after any sequence of grid operations, through methods or button
\* handlers, -1 <= historyIndex < history.length and history.length stays
\* within the capacity; an empty history has historyIndex = -1.
C3_HistoryCursorInRange ==
    /\ -1 <= historyIndex
    /\ historyIndex < Len(history)
    /\ Len(history) <= HistoryLimit

C3_Witness ==
    /\ Len(history) = HistoryLimit
    /\ historyIndex = 0
    /\ reductions > 0

\* C4: undo() with historyIndex <= 0 and redo() with historyIndex >=
\* history.length - 1 leave the grid's mapping, the history, historyIndex
\* and the selection unchanged.
C4_UndoRedoNoOps ==
    [][((UndoKey /\ historyIndex <= 0)
        \/ (RedoKey /\ historyIndex >= Len(history) - 1))
          => UNCHANGED <<gridColors, history, historyIndex, selectedCells>>]_vars

C4_Witness ==
    /\ last.op = "undo"
    /\ last.noop
    /\ historyIndex = 0
    /\ Len(history) > 1

\* what applyColorToSelection(color) must have done in this step
AppliedTo(color) ==
    /\ selectedCells' = selectedCells
    /\ IF Len(selectedCells) = 0
       THEN UNCHANGED <<gridColors, history, historyIndex>>
       ELSE /\ PushedOne
            /\ \A key \in Range(selectedCells) : Get(gridColors', key) = color
            /\ \A key \in (CoordinateKeys(gridColors) \cup CoordinateKeys(gridColors')
                           \cup InRangeKeys) \ Range(selectedCells) :
                   Get(gridColors', key) = Get(gridColors, key)

\* C5: applyColorToSelection(color) with an empty selection changes
\* nothing; with a non-empty one it pushes exactly one snapshot equal to the
\* pre-edit mapping, sets color on every selected coordinate and leaves
\* every other cell and the selection unchanged.
C5_ApplyColorToSelection ==
    [][\A slot \in Slots : ApplySelectedColor(slot) => AppliedTo(colors[slot])]_vars

C5_Witness ==
    /\ last.op = "applyColor"
    /\ ~last.noop
    /\ last.arg = Red
    /\ Len(history) = HistoryLimit
    /\ \E key \in InRangeKeys \ Range(selectedCells) : Get(gridColors, key) = White

\* the colour a colour map gives for value v: its entry's target, v itself
\* when it has no entry for v
HasEntry(colorMap, v) == \E i \in 1..Len(colorMap) : colorMap[i].from = v

MappedValue(colorMap, v) ==
    IF HasEntry(colorMap, v)
    THEN colorMap[CHOOSE i \in 1..Len(colorMap) : colorMap[i].from = v].to
    ELSE v

IdentityOn(colorMap, o) ==
    \A c \in Range(getAllColors(o)) : HasEntry(colorMap, c) /\ MappedValue(colorMap, c) = c

\* what applyColorMapping(colorMap) must have done in this step
MappedBy(colorMap) ==
    /\ PushedOne
    /\ CoordinateKeys(gridColors') = CoordinateKeys(gridColors)
    /\ \A key \in CoordinateKeys(gridColors) :
           Get(gridColors', key) = MappedValue(colorMap, Get(gridColors, key))
    /\ IdentityOn(colorMap, gridColors)
           => getColorCounts(gridColors') = getColorCounts(gridColors)

\* C6: applyColorMapping(map) pushes one snapshot and replaces the colour of
\* exactly the cells whose colour has an entry in map by the mapped colour;
\* cells whose colour has no entry keep it, and the identity map leaves the
\* histogram unchanged.
C6_ApplyColorMapping ==
    [][\A colorMap \in ColorMaps : ApplyColorMapping(colorMap) => MappedBy(colorMap)]_vars

C6_Witness ==
    /\ last.op = "applyMapping"
    /\ \E key \in InRangeKeys : Get(gridColors, key) # Get(beforeEdit, key)
    /\ \E key \in InRangeKeys : /\ Get(gridColors, key) = Get(beforeEdit, key)
                                /\ Get(gridColors, key) = Black

\* C7: after clearGrid() every in-range cell holds #FFFFFF, the selection is
\* empty and the history has gained exactly one snapshot whose mapping is
\* the grid as it was just before the clear.
C7_ClearGrid ==
    [][ClearGrid => /\ \A key \in InRangeKeys : Get(gridColors', key) = White
                    /\ selectedCells' = <<>>
                    /\ PushedOne]_vars

C7_Witness ==
    /\ last.op = "clearGrid"
    /\ \E key \in InRangeKeys : Get(beforeEdit, key) = Red
    /\ Len(history) = HistoryLimit
    /\ historyIndex = HistoryLimit - 1

RECURSIVE SumCounts(_)
SumCounts(counts) ==
    IF Len(counts) = 0 THEN 0 ELSE Head(counts).count + SumCounts(Tail(counts))

\* C8: in every reachable state the grid mapping has exactly one colour
\* entry for every in-range coordinate, so the counts of getColorCounts()
\* sum to cols x rows.
C8_EveryCellHasOneEntry ==
    /\ \A key \in InRangeKeys :
           /\ Cardinality({i \in 1..Len(gridColors.cells) :
                               gridColors.cells[i].k = key}) = 1
           /\ IsString(Get(gridColors, key))
    /\ SumCounts(getColorCounts(gridColors)) = cols * rows

\* the first 10 of a list of colours, white where the list ends
PadTruncate(cs) == [i \in 1..PaletteSize |-> IF i <= Len(cs) THEN cs[i] ELSE White]

\* C9: after every palette-changing operation the palette holds exactly 10
\* colours, padded with #FFFFFF when the source yields fewer and truncated
\* when it yields more.
C9_PaletteHasTenColors ==
    /\ [](Len(colors) = PaletteSize)
    /\ [][/\ \A file \in PaletteGridFiles :
               (/\ file.parses /\ Len(file.palette) = 1
                /\ ~AnyThrows(file.palette[1])
                /\ LoadGrid(file))
                   => colors' = PadTruncate(MapNormalize(file.palette[1]))
          /\ \A file \in PaletteFiles :
               (/\ file.parses /\ Len(ValidColors(file.colors)) > 0
                /\ ~AnyThrows(ValidColors(file.colors))
                /\ ImportPalette(file))
                   => colors' = PadTruncate(MapNormalize(ValidColors(file.colors)))
          /\ \A k \in TargetCounts :
               (reductions' # reductions /\ ApplyColorReduction(k))
                   => colors' = PadTruncate(
                                    Reduce(build, getAllColors(gridColors), k).colors)
          /\ SaveColor
               => colors' = PadTruncate([colors EXCEPT ![selectedColorIndex + 1] =
                                                          pickerColor])
         ]_vars

C9_Witness ==
    /\ colors = [i \in 1..PaletteSize |-> Black]
    /\ reductions > 0

\* how many entries of the histogram go before entry i: a larger count, or
\* the same count and a larger r+g+b, or both the same and an earlier place
Rank(hist, i) ==
    Cardinality({ j \in 1..Len(hist) :
        \/ hist[j].count > hist[i].count
        \/ /\ hist[j].count = hist[i].count
           /\ Intensity(hist[j].color) > Intensity(hist[i].color)
        \/ /\ hist[j].count = hist[i].count
           /\ Intensity(hist[j].color) = Intensity(hist[i].color)
           /\ j < i })

TopTen(hist) ==
    [p \in 1..PaletteSize |->
        IF p <= Len(hist)
        THEN hist[CHOOSE i \in 1..Len(hist) : Rank(hist, i) = p - 1].color
        ELSE White]

ExampleHistogram ==
    << [color |-> Red, count |-> 5], [color |-> Green, count |-> 5],
       [color |-> Blue, count |-> 1] >>

\* C10: extractTopColors(histogram) gives the colours by count descending,
\* then r+g+b descending, then insertion order, keeps the first 10 and pads
\* with #FFFFFF to 10; {#FF0000:5, #00FF00:5, #0000FF:1} gives #FF0000,
\* #00FF00, #0000FF and 7 times #FFFFFF.
C10_ExtractTopColors ==
    /\ last.op = "setOriginalImageColors" => colors = TopTen(originalImageColors)
    /\ extractTopColors(ExampleHistogram)
           = <<Red, Green, Blue, White, White, White, White, White, White, White>>

C10_Witness ==
    /\ last.op = "setOriginalImageColors"
    /\ originalImageColors = ExampleHistogram
    /\ colors[3] = Blue
    /\ colors[PaletteSize] = White

\* ---------------------------------------------------- colour reduction
ReduceReturned == last.op = "reduceColors" /\ ~last.arg.out.throws /\ ~last.arg.out.hangs

\* C11: reduceColors(colors, k), called with distinct colours in any session
\* state, returns exactly k colours when there are more than k of them and
\* the colours themselves, unchanged, when there are at most k
C11_ReduceReturnsK ==
    ReduceReturned =>
        /\ Len(last.arg.colors) > last.arg.k =>
               Len(last.arg.out.colors) = last.arg.k
        /\ Len(last.arg.colors) <= last.arg.k =>
               last.arg.out.colors = last.arg.colors

\* the session has no reference palette: no image has been processed
NoReferencePalette ==
    /\ NotWhite(colors) = <<>>
    /\ winOriginalImageColors = <<>>
    /\ firstImagePalette = <<>>

SquaredDistance(c1, c2) == colorDistance(hexToRgb(c1), hexToRgb(c2))

\* j is the lowest index among the centroids nearest to the colour
IsNearest(color, centroids, j) ==
    /\ \A m \in 1..Len(centroids) :
           SquaredDistance(color, centroids[j]) <= SquaredDistance(color, centroids[m])
    /\ \A m \in 1..(j - 1) :
           SquaredDistance(color, centroids[m]) > SquaredDistance(color, centroids[j])

Cluster(cs, centroids, j) == {i \in 1..Len(cs) : IsNearest(cs[i], centroids, j)}

RECURSIVE SumOver(_, _)
SumOver(f, S) ==
    IF S = {} THEN 0
    ELSE LET x == CHOOSE y \in S : TRUE IN f[x] + SumOver(f, S \ {x})

\* m is the mean of the values f[i], i in S, rounded to the nearest integer
\* (halves upwards, as Math.round does)
IsRoundedMean(m, f, S) ==
    /\ 2 * Cardinality(S) * m - Cardinality(S) <= 2 * SumOver(f, S)
    /\ 2 * SumOver(f, S) < 2 * Cardinality(S) * m + Cardinality(S)

IsCentroidOf(centroid, cs, S) ==
    /\ IsRoundedMean(hexToRgb(centroid).r, [i \in S |-> hexToRgb(cs[i]).r], S)
    /\ IsRoundedMean(hexToRgb(centroid).g, [i \in S |-> hexToRgb(cs[i]).g], S)
    /\ IsRoundedMean(hexToRgb(centroid).b, [i \in S |-> hexToRgb(cs[i]).b], S)

AreCentroids(cs, centroids) ==
    \A j \in 1..Len(centroids) :
        Cluster(cs, centroids, j) # {} =>
            IsCentroidOf(centroids[j], cs, Cluster(cs, centroids, j))

NearBlack(color) == Intensity(color) < 3 * 64
NearWhite(color) == Intensity(color) > 3 * 191

\* C12: with more than k colours and no prior reference palette, the colours
\* reduceColors returns are the centroids of the final assignment: with every
\* input assigned to its nearest returned colour (ties to the lowest index),
\* every returned colour with a non-empty cluster is the componentwise rounded
\* mean of its cluster; #000000, #080808, #FFFFFF and k = 2 give one near-black
\* and one near-white colour
C12_ReturnsCentroids ==
    (ReduceReturned /\ NoReferencePalette /\ Len(last.arg.colors) > last.arg.k) =>
        /\ AreCentroids(last.arg.colors, last.arg.out.colors)
        /\ (last.arg.colors = <<Black, Dark8, White>> /\ last.arg.k = 2) =>
               /\ \E j \in 1..2 : NearBlack(last.arg.out.colors[j])
               /\ \E j \in 1..2 : NearWhite(last.arg.out.colors[j])

\* the k-means variants of part_002 do return the centroids of the final
\* assignment; the variant of colorUtils2.js is the one that does not
KMeansVariantsReturnCentroids ==
    (last.op = "reduceColors" /\ last.arg.variant = "lowest") \/ C12_ReturnsCentroids

\* C13: reduceColors terminates on every input and in every session state
C13_ReduceTerminates == last.op = "reduceColors" => ~last.arg.out.hangs

\* the first image's palette and how often that image held a colour
FirstImageCount(color) == CountIn(firstImagePaletteCounts, color)

\* the place of entry i of the first image's palette once the palette is
\* ordered by first-image frequency, most frequent first, equal counts in
\* palette order
FrequencyRank(i) ==
    1 + Cardinality({m \in 1..Len(firstImagePalette) :
          \/ FirstImageCount(firstImagePalette[m]) > FirstImageCount(firstImagePalette[i])
          \/ /\ FirstImageCount(firstImagePalette[m]) = FirstImageCount(firstImagePalette[i])
             /\ m < i})

MostFrequentOfFirstImage(k) ==
    [j \in 1..(IF k < Len(firstImagePalette) THEN k ELSE Len(firstImagePalette)) |->
        firstImagePalette[CHOOSE i \in 1..Len(firstImagePalette) : FrequencyRank(i) = j]]

HasFirstImagePalette ==
    Len(firstImagePalette) > 0 /\ Len(firstImagePaletteCounts) > 0

Sampled(img, key) == rgbToHex(img[key].r, img[key].g, img[key].b)

\* the cell holds the member of the reference palette nearest to its pixel
HoldsNearest(o, img, key) ==
    \E j \in 1..Len(fullPalette) :
        /\ Get(o, key) = fullPalette[j]
        /\ IsNearest(Sampled(img, key), fullPalette, j)

\* the table handed to setOriginalImageColors is the grid's own histogram
\* and counts every cell once
TableIsGridHistogram(table, o) ==
    /\ Range(table) = Range(getColorCounts(o))
    /\ SumCounts(table) = cols * rows

ImageFilledGrid(img) ==
    /\ \A key \in InRangeKeys : HoldsNearest(gridColors', img, key)
    /\ TableIsGridHistogram(originalImageColors', gridColors')

\* C16: after processImage with a non-empty reference palette every in-range
\* cell holds the member of that palette nearest to the sampled pixel, and the
\* frequency table handed to the palette is the grid's own histogram, its
\* counts summing to cols x rows
C16_ImageFillsGrid ==
    [][\A img \in MappingImages :
          (Len(fullPalette) > 0 /\ LoadImage(img)) => ImageFilledGrid(img)]_vars

\* the same holds whenever the grid object holds coordinates only, that is
\* unless HexGrid.undo has installed a whole history entry as colour map
ImageFillsPlainGrid ==
    [][\A img \in MappingImages :
          (Len(fullPalette) > 0 /\ Len(gridColors.wrap) = 0 /\ LoadImage(img))
              => ImageFilledGrid(img)]_vars

\* ------------------------------------------------- the fetch of the palette
\* C17: however the fetch of the full palette and an image load interleave,
\* the full palette is not empty when processImage samples the image, so no
\* cell is assigned undefined
C17_PaletteThereWhenSampling ==
    last.op = "loadImage" =>
        /\ Len(fullPalette) > 0
        /\ \A key \in InRangeKeys : Get(gridColors, key) # Undef

\* the twelve colours of the fallback
TwelveDefaults ==
    << <<"#","F","F","0","0","0","0">>, <<"#","0","0","F","F","0","0">>,
       <<"#","0","0","0","0","F","F">>, <<"#","F","F","F","F","0","0">>,
       <<"#","F","F","0","0","F","F">>, <<"#","0","0","F","F","F","F">>,
       <<"#","F","F","F","F","F","F">>, <<"#","0","0","0","0","0","0">>,
       <<"#","8","8","8","8","8","8">>, <<"#","F","F","8","8","0","0">>,
       <<"#","0","0","F","F","A","A">>, <<"#","A","A","0","0","F","F">> >>

\* what the claim expects of each file: its colours normalized when it loads
\* with a non-empty array of colour texts, the fallback otherwise
ExpectedOfFile(ok, fileColors) ==
    IF ~ok THEN TwelveDefaults
    ELSE IF fileColors = <<(<<"#","f","0","0">>), (<<"0","0","0","0","0","0">>)>>
         THEN <<Red, Black>>
    ELSE IF fileColors = <<Grey, Grey>> THEN <<Grey, Grey>>
    ELSE TwelveDefaults

\* C18: once loadFullColorPalette has settled the full palette is not empty:
\* it is the normalized colours of the file when the file loads with a
\* non-empty colours array, and exactly the twelve defaults otherwise (failed
\* fetch, response not OK, malformed content, empty or missing colours)
C18_SettledPaletteNonEmpty ==
    /\ [](~fetchPending => Len(fullPalette) > 0)
    /\ [][\A ok \in BOOLEAN, fileColors \in FetchFileColors :
             FetchSettles(ok, fileColors) =>
                 fullPalette' = ExpectedOfFile(ok, fileColors)]_vars

\* the fetch has settled on the file that holds #f00 and 000000
C18_Witness ==
    /\ last.op = "fetchSettled"
    /\ ~fetchPending
    /\ fullPalette = <<Red, Black>>

\* --------------------------------------------------------- loading a grid
\* the file cannot be loaded: it does not parse or has no cell map
LacksCellMap(file) == ~file.parses \/ file.field # GridField(build)

LoadLeavesAll ==
    UNCHANGED <<gridColors, cols, rows, selectedCells, history, historyIndex, colors>>

\* the step has replaced the grid, the selection and, when the file has a
\* palette, the ten slots
LoadReplacesAll(file) ==
    /\ SameMapping(gridColors', [cells |-> file.cells, wrap |-> <<>>])
    /\ selectedCells' = <<>>
    /\ Len(file.palette) = 1 =>
           /\ ~AnyThrows(file.palette[1])
           /\ colors' = PadTruncate(MapNormalize(file.palette[1]))

\* C19: loading a grid file is all or nothing: a file without the cell map,
\* or malformed, leaves grid, cols/rows, selection, history and palette as
\* they were, and no load changes only part of that state
C19_LoadAllOrNothing ==
    [][\A file \in PaletteGridFiles :
          LoadGrid(file) =>
              /\ LacksCellMap(file) => LoadLeavesAll
              /\ LoadLeavesAll \/ LoadReplacesAll(file)]_vars

\* the load has pushed exactly one snapshot, the mapping given, behind the
\* entries up to the cursor (less the oldest when the history was full), and
\* the cursor is on it
LoadPushed(o) ==
    /\ Len(history') >= 1
    /\ historyIndex' = Len(history') - 1
    /\ Front(history') =
           IF historyIndex + 1 = HistoryLimit
           THEN SubSeq(history, 2, historyIndex + 1)
           ELSE SubSeq(history, 1, historyIndex + 1)
    /\ SameMapping(Last(history'), o)

C21_FailureLeavesState ==
    [][last'.threw => UNCHANGED <<gridColors, history, historyIndex>>]_vars

\* ------------------------------------------------------- canonical colours
UpperHexDigits ==
    {"0","1","2","3","4","5","6","7","8","9","A","B","C","D","E","F"}

\* # followed by exactly six uppercase hexadecimal digits
IsCanonical(c) ==
    /\ IsString(c)
    /\ Len(c) = 7
    /\ c[1] = "#"
    /\ \A i \in 2..7 : c[i] \in UpperHexDigits

\* C22: in every reachable state every colour stored in a grid cell or in a
\* palette slot is in canonical form, whatever path brought it in
C22_StoredColorsCanonical ==
    /\ \A i \in 1..Len(colors) : IsCanonical(colors[i])
    /\ \A i \in 1..Len(gridColors.cells) : IsCanonical(gridColors.cells[i].v)

\* ------------------------------------------------------------ double click
\* the in-range cells that hold the colour of cell t
CellsColoredLike(t) ==
    {key \in InRangeKeys : Get(gridColors, key) = Get(gridColors, t)}

DoubleClicked(t) ==
    /\ UNCHANGED <<gridColors, history, historyIndex>>
    /\ IF isValidCell(t[1], t[2], cols, rows)
       THEN /\ Range(selectedCells') = CellsColoredLike(t)
            /\ ~last'.noop
            /\ last'.arg = Get(gridColors, t)
       ELSE UNCHANGED selectedCells

\* C23: a double click on an in-range cell sets the selection to exactly the
\* cells whose colour equals the colour of the clicked cell, notifies the
\* listeners with that colour and changes neither grid nor history; a double
\* click outside the grid changes nothing
C23_DoubleClickSelectsSameColor ==
    [][\A t \in MouseTargets : HandleDoubleClick(t) => DoubleClicked(t)]_vars

\* the same holds whenever the grid object holds coordinates only, that is
\* unless HexGrid.undo has installed a whole history entry as colour map
DoubleClickOnPlainGrid ==
    [][\A t \in MouseTargets :
          (Len(gridColors.wrap) = 0 /\ HandleDoubleClick(t)) => DoubleClicked(t)]_vars

\* --------------------------------------------------- undo and redo paths
UndoRedoRan ==
    /\ last.op \in {"undo", "redo", "undoButton", "redoButton"}
    /\ ~last.noop

\* C24: every undo/redo entry point (the methods bound to Ctrl+Z / Ctrl+Y and
\* the Undo / Redo buttons), when it is not a no-op, leaves the live mapping
\* equal to the mapping of the snapshot at the new historyIndex, so both
\* paths produce the same grid and the same index
C24_UndoRedoPathsAgree ==
    UndoRedoRan =>
        /\ historyIndex >= 0 /\ historyIndex < Len(history)
        /\ SameMapping(gridColors, history[historyIndex + 1])

\* ---------------------------------------------------- pushing a snapshot
\* this step has run saveState
SavedState ==
    \/ history' # history
    \/ last'.op \in {"applyColor", "clearGrid"} /\ ~last'.noop

\* C25: saveState called while historyIndex < history.length - 1 removes
\* every snapshot after historyIndex before it appends the new one and keeps
\* the snapshots up to the old index unchanged and in order; afterwards
\* historyIndex = history.length - 1, and a redo right after the edit is a
\* no-op
C25_SaveStateTruncates ==
    [][/\ (SavedState /\ historyIndex < Len(history) - 1) =>
            /\ Len(history') = historyIndex + 2
            /\ SubSeq(history', 1, historyIndex + 1)
                   = SubSeq(history, 1, historyIndex + 1)
            /\ historyIndex' = Len(history') - 1
       /\ (EditJustRan /\ (RedoKey \/ RedoButton)) =>
            /\ UNCHANGED <<gridColors, history, historyIndex>>
            /\ last'.noop]_vars

\* a clear that ran with the cursor before the last snapshot
C25_Witness ==
    /\ last.op = "clearGrid"
    /\ last.arg.cursor = 0
    /\ last.arg.length = 2
    /\ Len(history) = 2
    /\ historyIndex = 1

\* C26 as stated: whenever the history holds as many snapshots as its
\* capacity, saveState evicts the oldest one, keeps the other retained ones
\* in order, appends the new one, and the length is the capacity afterwards
C26_FullHistoryEvictsOldest ==
    [][(SavedState /\ Len(history) = HistoryLimit) =>
           /\ Len(history') = HistoryLimit
           /\ Front(history') = SubSeq(history, 2, historyIndex + 1)
           /\ historyIndex' = Len(history') - 1]_vars

\* C26, amended: when the history holds as many snapshots as its capacity
\* and the cursor is on the last of them, saveState evicts exactly the oldest
\* snapshot, keeps the others in order, appends the new one last with the
\* cursor on it, and the length is the capacity afterwards
C26_FullHistoryAtEndEvictsOldest ==
    [][(SavedState /\ Len(history) = HistoryLimit
                   /\ historyIndex = Len(history) - 1) =>
           /\ Len(history') = HistoryLimit
           /\ Front(history') = Tail(history)
           /\ historyIndex' = Len(history') - 1]_vars

\* a clear that ran on a full history with the cursor at its end, whose
\* oldest snapshot differed from the one that stays
C26_Witness ==
    /\ last.op = "clearGrid"
    /\ last.arg.length = HistoryLimit
    /\ last.arg.cursor = HistoryLimit - 1
    /\ Len(history) = HistoryLimit
    /\ historyIndex = HistoryLimit - 1
    /\ history[1] # history[2]

\* ------------------------------------------------- reducing the grid
\* the colours the cells of a colour map hold
UsesColors(o) == {Get(o, key) : key \in CoordinateKeys(o) \cup InRangeKeys}

\* what a reduction request with target k must have done in this step
ReductionDone(k, returned) ==
    IF Cardinality(UsesColors(gridColors)) > k
    THEN /\ PushedOne
         /\ ~last'.threw
         /\ \A key \in CoordinateKeys(gridColors') \cup InRangeKeys :
                /\ Get(gridColors', key) \in Range(returned.colors)
                /\ Get(gridColors', key)
                       = findClosestColor(Get(gridColors, key), returned.colors)
         /\ Cardinality(UsesColors(gridColors')) <= k
    ELSE UNCHANGED <<gridColors, colors, history, historyIndex>>

\* C27: a reduction request with target k on a grid that uses more than k
\* distinct colours pushes exactly one snapshot and leaves every cell holding
\* the returned colour nearest to its old colour, so the grid uses at most k
\* colours; on a grid that uses at most k colours it changes neither grid,
\* palette nor history
C27_ReductionRemapsGrid ==
    [][\A k \in {1} :
          ApplyColorReduction(k) =>
              ReductionDone(k, Reduce(build, getAllColors(gridColors), k))]_vars

\* the same on a grid whose colour map undo/redo has not replaced by a
\* history entry
ReductionRemapsPlainGrid ==
    [][\A k \in {1} :
          (Len(gridColors.wrap) = 0 /\ ApplyColorReduction(k)) =>
              ReductionDone(k, Reduce(build, getAllColors(gridColors), k))]_vars

\* ------------------------------------------- the first image's palette
\* the first image has been processed
FirstImageSeen == firstImagePalette # <<>> \/ firstImagePaletteCounts # <<>>

\* C28: the first image's reference palette is write-once: once the first
\* image has been processed, firstImagePalette and firstImagePaletteCounts
\* never change, whatever image loads, edits, reductions, undos or grid loads
\* follow, and the colours counted are the colours of the palette
C28_FirstPaletteWriteOnce ==
    [][/\ FirstImageSeen =>
              UNCHANGED <<firstImagePalette, firstImagePaletteCounts>>
       /\ Range(HistogramKeys(firstImagePaletteCounts'))
              = Range(firstImagePalette')
       /\ Len(firstImagePaletteCounts') = Len(firstImagePalette')]_vars

\* a later image with other colours has been processed, and a reduction and
\* an undo have run, with the first image's palette still there
C28_Witness ==
    /\ FirstImageSeen
    /\ winOriginalImageColors # firstImagePalette
    /\ reductions > 0
    /\ historyIndex < Len(history) - 1

\* ------------------------------------------- image load and its snapshot
\* C29: an image load overwrites the grid and records its snapshot in one
\* uninterrupted step: while the snapshot of an image load is still to be
\* recorded, the only step that runs is the one that records it
C29_ImageLoadAndSnapshotAtomic ==
    [][pendingSaves > 0 => (DeferredSaveState /\ pendingSaves' = pendingSaves - 1)]_vars

\* the hex build's processImage calls saveState itself: no snapshot is ever
\* left to a timer
HexImageLoadSavesAtOnce == build = "hex" => pendingSaves = 0

\* ------------------------------------------------------- the selection
\* C30: in every reachable state the selection holds only keys of in-range
\* coordinates, after any sequence of mouse-down, drag, double-click,
\* clear-selection, painting, undo/redo and grid load
C30_SelectionInRange == Range(selectedCells) \subseteq InRangeKeys

\* mouse-down and drag alone select in-range cells only
MouseSelectsInRange ==
    [][\A t \in MouseTargets :
          (HandleMouseDown(t) \/ (Range(selectedCells) \subseteq InRangeKeys
                                    /\ HandleMouseMove(t)))
              => Range(selectedCells') \subseteq InRangeKeys]_vars
====
